---- MODULE Spec2Model ----
(***************************************************************************)
(* Model of go-template-sh: the project generator (internal/generator),   *)
(* its configuration (internal/config) and the configuration field         *)
(* reference adapter (getConfigFieldReference / generateConfigAccessors).  *)
(*                                                                         *)
(* Text is modelled as follows.  A Go string that the code builds by       *)
(* concatenation ("cfg." + field) is a TLA+ string built with \o.  The     *)
(* content of a generated file is the sequence of the fragments that the   *)
(* code splices together: every %s hole of a fmt.Sprintf is one fragment,  *)
(* and the literal text around the holes is cut into fragments so that     *)
(* every expression that reads a configuration field, every declaration    *)
(* and every import is a fragment of its own.  "The file contains e" is    *)
(* membership of e among the fragments.  A path is the sequence of its     *)
(* components, filepath.Join is concatenation.                             *)
(***************************************************************************)
EXTENDS Integers, Sequences, FiniteSets, TLC

\* ---------------------------------------------------------------- bounds
\* Number of getConfigFieldReference calls made in one behaviour of
\* SpecResolver.
MaxCalls == 2

\* Number of times Generate is run in one behaviour of Spec (the first run
\* and the runs that repeat it).
MaxRuns == 2

\* Number of byte slices the callers of the file system hold (the slices
\* passed to WriteFile and the slices ReadFile returned).
MaxSlices == 2

\* Number of goroutines that call the file system concurrently.
MaxGoroutines == 3

\* ------------------------------------------------------------- variables
VARIABLES
    config,     \* Generator.config: the *config.Config the generator holds
    pc,         \* position of Generate in its pipeline
    files,      \* the file system: path -> content
    dirs,       \* the file system: set of directories
    genErr,     \* what Generate returned ("" is nil, "running" before return)
    ncalls,     \* number of getConfigFieldReference calls so far
    first,      \* history: receiver's config, argument and result of the first call
    last,       \* the same of the most recent call
    outputDir,  \* Generator.outputDir, a path as its sequence of elements
    runs,       \* number of Generate runs started so far
    prev,       \* history: the files the previous successful run left
    wlog,       \* history: the paths written by the current run, in order
    answer,     \* prompt: the answers given so far, question -> input
    slices,     \* the byte slices the callers of the file system hold
    hist,       \* history: path -> bytes of the last write not since removed
    ret,        \* what the last file-system call returned
    procs,      \* goroutine -> its call and its position in it
    mu,         \* MemoryFileSystem.mu: the writer and the readers holding it
    order       \* history: the calls in the order they took the lock

vars == <<config, pc, files, dirs, genErr, ncalls, first, last, outputDir, runs, prev,
          wlog, answer, slices, hist, ret, procs, mu, order>>

\* The variables of the prompt, of the file-system callers and of the
\* goroutines, which the generator does not touch.
auxVars == <<answer, slices, hist, ret, procs, mu, order>>

\* ------------------------------------------------------- internal/config
AllDatabases == {"postgres", "mysql", "mongodb", "redis"}

\* The configuration the tests of the repository use most often.
BaseConfig ==
    [ProjectName   |-> "app",
     ModulePath    |-> "github.com/test/app",
     GoVersion     |-> "1.21",
     Framework     |-> "stdlib",
     Databases     |-> {},
     Logger        |-> "slog",
     EnableTracing |-> FALSE,
     EnableMetrics |-> FALSE,
     IncludeDocker |-> FALSE,
     CI            |-> "",
     ConfigFormat  |-> "env",
     EnvSample     |-> FALSE]

HasDatabase(c, db) == db \in c.Databases

NeedsCache(c) == HasDatabase(c, "redis")

NeedsSQL(c) == HasDatabase(c, "postgres") \/ HasDatabase(c, "mysql")

NeedsNoSQL(c) == HasDatabase(c, "mongodb")

\* ----------------------------------------- the field reference adapter
Catalog ==
    {"Port", "Environment", "LogLevel", "PostgresURL", "MySQLURL",
     "MongoURL", "RedisURL", "OTLPEndpoint", "ServiceName"}

StructuredFormats == {"yaml", "json", "toml"}

FlatFormats == {"", "env"}

\* Mutants of getConfigFieldReference (each is one plausible slip).
\* The Port case of the switch is missing.
getConfigFieldReference_NoPortCase(field_) ==
    IF config.ConfigFormat = "" \/ config.ConfigFormat = "env"
    THEN "cfg." \o field_
    ELSE IF field_ \in Catalog \ {"Port"}
         THEN "cfg.Get" \o field_ \o "()"
         ELSE "cfg." \o field_

\* The env test is dropped: every format goes through the switch.
getConfigFieldReference_NoEnvTest(field_) ==
    IF config.ConfigFormat = ""
    THEN "cfg." \o field_
    ELSE IF field_ \in Catalog
         THEN "cfg.Get" \o field_ \o "()"
         ELSE "cfg." \o field_

\* The default case derives an accessor name instead of falling back.
getConfigFieldReference_DefaultAccessor(field_) ==
    IF config.ConfigFormat = "" \/ config.ConfigFormat = "env"
    THEN "cfg." \o field_
    ELSE "cfg.Get" \o field_ \o "()"

\* The empty format is not treated as env.
getConfigFieldReference_NoEmptyTest(field_) ==
    IF config.ConfigFormat = "env"
    THEN "cfg." \o field_
    ELSE IF field_ \in Catalog
         THEN "cfg.Get" \o field_ \o "()"
         ELSE "cfg." \o field_

\* toml reads the nested struct directly instead of calling the accessor.
getConfigFieldReference_TomlNested(field_) ==
    IF config.ConfigFormat = "" \/ config.ConfigFormat = "env"
    THEN "cfg." \o field_
    ELSE IF field_ \in Catalog
         THEN IF config.ConfigFormat = "toml"
              THEN "cfg.App." \o field_
              ELSE "cfg.Get" \o field_ \o "()"
         ELSE "cfg." \o field_

\* The tracing accessors are used only when tracing is enabled.
getConfigFieldReference_TracingDependent(field_) ==
    IF config.ConfigFormat = "" \/ config.ConfigFormat = "env"
    THEN "cfg." \o field_
    ELSE IF field_ \in Catalog
            /\ (field_ \in {"OTLPEndpoint", "ServiceName"} => config.EnableTracing)
         THEN "cfg.Get" \o field_ \o "()"
         ELSE "cfg." \o field_

\* getConfigFieldReference: a method of the Generator, it reads g.config.
getConfigFieldReference(field_) ==
    IF config.ConfigFormat = "" \/ config.ConfigFormat = "env"
    THEN "cfg." \o field_
    ELSE CASE field_ = "Port"         -> "cfg.GetPort()"
           [] field_ = "Environment"  -> "cfg.GetEnvironment()"
           [] field_ = "LogLevel"     -> "cfg.GetLogLevel()"
           [] field_ = "PostgresURL"  -> "cfg.GetPostgresURL()"
           [] field_ = "MySQLURL"     -> "cfg.GetMySQLURL()"
           [] field_ = "MongoURL"     -> "cfg.GetMongoURL()"
           [] field_ = "RedisURL"     -> "cfg.GetRedisURL()"
           [] field_ = "OTLPEndpoint" -> "cfg.GetOTLPEndpoint()"
           [] field_ = "ServiceName"  -> "cfg.GetServiceName()"
           [] OTHER                   -> "cfg." \o field_

\* --------------------------------------------------- resolver behaviours
\* Field names handed to the resolver: the catalog and names outside it
\* (the empty string, an unknown name, a catalog name in the wrong case, a
\* field of the flat struct that has no entry in the switch).
NonCatalogFields ==
    {"", "DoesNotExist", "port", "MetricsEnabled"}

FieldNames == Catalog \cup NonCatalogFields

ResolverFormats == FlatFormats \cup StructuredFormats

\* Configurations of the generators the resolver is called on: every format,
\* once with nothing selected and once with tracing and databases selected.
ResolverConfigs ==
    {[BaseConfig EXCEPT !.ConfigFormat = f, !.EnableTracing = t,
                        !.Databases = IF t THEN {"postgres", "redis"} ELSE {}] :
        f \in ResolverFormats, t \in BOOLEAN}

NoCall == [field |-> "", cfg |-> BaseConfig, result |-> "none"]

EmptyFiles == [p \in {} |-> <<>>]

NoRun == [files |-> EmptyFiles, fresh |-> FALSE]

NoReturn == [op |-> "none", path |-> <<>>, err |-> "", data |-> <<>>]

\* No prompt, no file-system caller and no goroutine is active.
AuxInit ==
    /\ answer = <<>>
    /\ slices = <<>>
    /\ hist = EmptyFiles
    /\ ret = NoReturn
    /\ procs = <<>>
    /\ mu = [writer |-> 0, readers |-> {}]
    /\ order = <<>>

InitResolver ==
    /\ config \in ResolverConfigs
    /\ pc = "idle"
    /\ files = EmptyFiles
    /\ dirs = {}
    /\ genErr = "running"
    /\ ncalls = 0
    /\ first = NoCall
    /\ last = NoCall
    /\ outputDir = <<"out">>
    /\ runs = 0
    /\ prev = NoRun
    /\ wlog = <<>>
    /\ AuxInit

\* generator.New(cfg, outputDir): a new Generator over another configuration
\* (what every test case of generator_test.go does before it calls the
\* resolver).
New(cfg) ==
    /\ pc = "idle"
    /\ cfg # config
    /\ config' = cfg
    /\ UNCHANGED <<pc, files, dirs, genErr, ncalls, first, last, outputDir, runs, prev,
                   wlog, auxVars>>

\* One call g.getConfigFieldReference(f), recorded in the history.
CallGetConfigFieldReference(f) ==
    /\ pc = "idle"
    /\ ncalls < MaxCalls
    /\ ncalls' = ncalls + 1
    /\ last' = [field |-> f, cfg |-> config, result |-> getConfigFieldReference(f)]
    /\ first' = IF ncalls = 0 THEN last' ELSE first
    /\ UNCHANGED <<config, pc, files, dirs, genErr, outputDir, runs, prev, wlog, auxVars>>

NextResolver ==
    \/ \E cfg \in ResolverConfigs : New(cfg)
    \/ \E f \in FieldNames : CallGetConfigFieldReference(f)

SpecResolver == InitResolver /\ [][NextResolver]_vars

\* ------------------------------------------------- claims on the resolver
\* C1: for each of the nine catalog fields and each structured format
\* (yaml, json, toml) the resolver returns exactly "cfg.Get" + f + "()".
C1_CatalogAccessor ==
    (ncalls > 0 /\ last.field \in Catalog
                /\ last.cfg.ConfigFormat \in StructuredFormats)
        => last.result = "cfg.Get" \o last.field \o "()"

C1_Witness ==
    /\ ncalls > 0
    /\ last.field = "Port"
    /\ last.cfg.ConfigFormat = "json"
    /\ last.result = "cfg.GetPort()"

\* C2: for every field name, in the catalog or not, and format "env" the
\* resolver returns exactly "cfg." + f.
C2_EnvFlat ==
    (ncalls > 0 /\ last.cfg.ConfigFormat = "env")
        => last.result = "cfg." \o last.field

C2_Witness ==
    /\ ncalls > 0
    /\ last.cfg.ConfigFormat = "env"
    /\ last.field = "RedisURL"
    /\ last.result = "cfg.RedisURL"

\* C3: for every field name outside the catalog and every structured format
\* the resolver returns the flat form "cfg." + s (it has no error result).
C3_UnknownFallsBack ==
    (ncalls > 0 /\ last.field \notin Catalog
                /\ last.cfg.ConfigFormat \in StructuredFormats)
        => last.result = "cfg." \o last.field

C3_Witness ==
    /\ ncalls > 0
    /\ last.field = "DoesNotExist"
    /\ last.cfg.ConfigFormat = "yaml"
    /\ last.result = "cfg.DoesNotExist"

\* C4: the empty format is indistinguishable from "env": a call under
\* format "" and a call under format "env" with the same field name return
\* the same string.
C4_EmptyIsEnv ==
    (ncalls > 1 /\ first.field = last.field
                /\ {first.cfg.ConfigFormat, last.cfg.ConfigFormat} = {"", "env"})
        => first.result = last.result

C4_Witness ==
    /\ ncalls > 1
    /\ first.field = "Port"
    /\ last.field = "Port"
    /\ first.cfg.ConfigFormat = ""
    /\ last.cfg.ConfigFormat = "env"
    /\ last.result = "cfg.Port"

\* C5: the three structured formats are interchangeable: calls with the
\* same field name under two different formats of yaml, json, toml return the
\* same string.
C5_StructuredInterchangeable ==
    (ncalls > 1 /\ first.field = last.field
                /\ first.cfg.ConfigFormat \in StructuredFormats
                /\ last.cfg.ConfigFormat \in StructuredFormats
                /\ first.cfg.ConfigFormat # last.cfg.ConfigFormat)
        => first.result = last.result

C5_Witness ==
    /\ ncalls > 1
    /\ first.field = "RedisURL"
    /\ last.field = "RedisURL"
    /\ first.cfg.ConfigFormat = "yaml"
    /\ last.cfg.ConfigFormat = "toml"
    /\ last.result = "cfg.GetRedisURL()"

Lower == {"a","b","c","d","e","f","g","h","i","j","k","l","m",
          "n","o","p","q","r","s","t","u","v","w","x","y","z"}

Upper == {"A","B","C","D","E","F","G","H","I","J","K","L","M",
          "N","O","P","Q","R","S","T","U","V","W","X","Y","Z"}

Digit == {"0","1","2","3","4","5","6","7","8","9"}

\* The characters of the strings the model draws: project names, module
\* paths, path elements, prompt choices and the keywords the parsers look for.
Chars(str) ==
    CASE str = "app" -> <<"a","p","p">>
      [] str = "my-app_1" -> <<"m","y","-","a","p","p","_","1">>
      [] str = "App" -> <<"A","p","p">>
      [] str = "../.." -> <<".",".","/",".",".">>
      [] str = "github.com/test/app" ->
            <<"g","i","t","h","u","b",".","c","o","m","/","t","e","s","t","/","a","p","p">>
      [] str = "noslash" -> <<"n","o","s","l","a","s","h">>
      [] str = "a//b" -> <<"a","/","/","b">>
      [] str = "a" -> <<"a">>
      [] str = "b" -> <<"b">>
      [] str = "bc" -> <<"b","c">>
      [] str = "d" -> <<"d">>
      [] str = "f" -> <<"f">>
      [] str = "zz" -> <<"z","z">>
      [] str = "." -> <<".">>
      [] str = ".." -> <<".",".">>
      [] str = "-app" ->
            <<"-","a","p","p">>
      [] str = "_x" ->
            <<"_","x">>
      [] str = "net/http (standard library)" ->
            <<"n","e","t","/","h","t","t","p"," ","(","s","t","a","n","d","a","r","d"," ","l","i","b","r","a","r","y",")">>
      [] str = "Chi" ->
            <<"C","h","i">>
      [] str = "Gin" ->
            <<"G","i","n">>
      [] str = "Echo" ->
            <<"E","c","h","o">>
      [] str = "Fiber" ->
            <<"F","i","b","e","r">>
      [] str = "chi" ->
            <<"c","h","i">>
      [] str = "Gin or Chi" ->
            <<"G","i","n"," ","o","r"," ","C","h","i">>
      [] str = "Django" ->
            <<"D","j","a","n","g","o">>
      [] str = "slog (standard library)" ->
            <<"s","l","o","g"," ","(","s","t","a","n","d","a","r","d"," ","l","i","b","r","a","r","y",")">>
      [] str = "Zap" ->
            <<"Z","a","p">>
      [] str = "Zerolog" ->
            <<"Z","e","r","o","l","o","g">>
      [] str = "zap" ->
            <<"z","a","p">>
      [] str = "Logrus" ->
            <<"L","o","g","r","u","s">>
      [] str = "GitHub Actions" ->
            <<"G","i","t","H","u","b"," ","A","c","t","i","o","n","s">>
      [] str = "GitLab CI" ->
            <<"G","i","t","L","a","b"," ","C","I">>
      [] str = "None" ->
            <<"N","o","n","e">>
      [] str = "Jenkins" ->
            <<"J","e","n","k","i","n","s">>
      [] str = "Environment variables (.env)" ->
            <<"E","n","v","i","r","o","n","m","e","n","t"," ","v","a","r","i","a","b","l","e","s"," ","(",".","e","n","v",")">>
      [] str = "YAML (config.yaml)" ->
            <<"Y","A","M","L"," ","(","c","o","n","f","i","g",".","y","a","m","l",")">>
      [] str = "JSON (config.json)" ->
            <<"J","S","O","N"," ","(","c","o","n","f","i","g",".","j","s","o","n",")">>
      [] str = "TOML (config.toml)" ->
            <<"T","O","M","L"," ","(","c","o","n","f","i","g",".","t","o","m","l",")">>
      [] str = "yaml" ->
            <<"y","a","m","l">>
      [] str = "XML" ->
            <<"X","M","L">>
      [] str = "net/http" ->
            <<"n","e","t","/","h","t","t","p">>
      [] str = "slog" ->
            <<"s","l","o","g">>
      [] str = "GitHub" ->
            <<"G","i","t","H","u","b">>
      [] str = "GitLab" ->
            <<"G","i","t","L","a","b">>
      [] str = "YAML" ->
            <<"Y","A","M","L">>
      [] str = "JSON" ->
            <<"J","S","O","N">>
      [] str = "TOML" ->
            <<"T","O","M","L">>
      [] OTHER -> <<>>

\* ------------------------------------------------------------- text, paths
Opt(cond, frags) == IF cond THEN frags ELSE <<>>

Fragments(content) == {content[i] : i \in DOMAIN content}

Contains(content, e) == e \in Fragments(content)

\* The output directories Generate is run on: a relative one, one that
\* climbs out of the working directory, and a rooted one.
OutputDirs == {<<"out">>, <<"..", "w">>, <<"/", "tmp">>}

\* The elements of a slash-separated path, from character i on.
RECURSIVE SplitPath(_, _, _)
SplitPath(cs, i, cur) ==
    IF i > Len(cs) THEN <<cur>>
    ELSE IF cs[i] = "/" THEN <<cur>> \o SplitPath(cs, i + 1, "")
    ELSE SplitPath(cs, i + 1, cur \o cs[i])

Components(str) == SplitPath(Chars(str), 1, "")

\* filepath.Clean on the elements: empty and "." elements are dropped, ".."
\* removes the element before it, stays at the root, and is kept at the
\* start of a relative path.
RECURSIVE CleanFrom(_, _, _)
CleanFrom(parts, i, acc) ==
    IF i > Len(parts) THEN acc
    ELSE IF parts[i] \in {"", "."} THEN CleanFrom(parts, i + 1, acc)
    ELSE IF parts[i] = ".." THEN
        IF Len(acc) > 0 /\ acc[Len(acc)] \notin {"..", "/"}
        THEN CleanFrom(parts, i + 1, SubSeq(acc, 1, Len(acc) - 1))
        ELSE IF Len(acc) > 0 /\ acc[Len(acc)] = "/"
        THEN CleanFrom(parts, i + 1, acc)
        ELSE CleanFrom(parts, i + 1, Append(acc, ".."))
    ELSE CleanFrom(parts, i + 1, Append(acc, parts[i]))

\* filepath.Join(a, b)
Join(a, b) == CleanFrom(a \o b, 1, <<>>)

\* New: projectDir = filepath.Join(outputDir, cfg.ProjectName)
projectDir == Join(outputDir, Components(config.ProjectName))

\* The directories MkdirAll and WriteFile create above (and including) d.
WithParents(d) == {SubSeq(d, 1, n) : n \in 1..Len(d)}

\* ------------------------------------------------------------ templates.go
\* One line of the require block: a module path and its version.
Dep(module, version) == [module |-> module, version |-> version]

\* Mutant: the json format (which needs no parser module) adds no godotenv.
buildDependencies_JSONWithoutGodotenv ==
    (CASE config.Framework = "chi"   -> <<Dep("github.com/go-chi/chi/v5", "v5.0.11")>>
       [] config.Framework = "gin"   -> <<Dep("github.com/gin-gonic/gin", "v1.10.0")>>
       [] config.Framework = "echo"  -> <<Dep("github.com/labstack/echo/v4", "v4.11.4")>>
       [] config.Framework = "fiber" -> <<Dep("github.com/gofiber/fiber/v2", "v2.52.0")>>
       [] OTHER -> <<>>)
    \o (IF config.Logger = "zap" THEN <<Dep("go.uber.org/zap", "v1.26.0")>>
        ELSE IF config.Logger = "zerolog" THEN <<Dep("github.com/rs/zerolog", "v1.32.0")>>
        ELSE <<>>)
    \o Opt(HasDatabase(config, "postgres"), <<Dep("github.com/jackc/pgx/v5", "v5.5.1")>>)
    \o Opt(HasDatabase(config, "mysql"), <<Dep("github.com/go-sql-driver/mysql", "v1.7.1")>>)
    \o Opt(HasDatabase(config, "mongodb"), <<Dep("go.mongodb.org/mongo-driver", "v1.13.1")>>)
    \o Opt(HasDatabase(config, "redis"), <<Dep("github.com/redis/go-redis/v9", "v9.4.0")>>)
    \o Opt(config.EnableTracing,
           <<Dep("go.opentelemetry.io/otel", "v1.22.0"),
             Dep("go.opentelemetry.io/otel/sdk", "v1.22.0"),
             Dep("go.opentelemetry.io/otel/exporters/otlp/otlptrace/otlptracegrpc", "v1.22.0")>>)
    \o Opt(config.EnableMetrics, <<Dep("github.com/prometheus/client_golang", "v1.18.0")>>)
    \o (CASE config.ConfigFormat = "yaml" -> <<Dep("gopkg.in/yaml.v3", "v3.0.1")>>
          [] config.ConfigFormat = "toml" -> <<Dep("github.com/BurntSushi/toml", "v1.3.2")>>
          [] config.ConfigFormat = "json" -> <<>>
          [] OTHER -> <<Dep("github.com/joho/godotenv", "v1.5.1")>>)
    \o <<Dep("github.com/stretchr/testify", "v1.8.4"), Dep("go.uber.org/mock", "v0.4.0")>>

buildDependencies ==
    (CASE config.Framework = "chi"   -> <<Dep("github.com/go-chi/chi/v5", "v5.0.11")>>
       [] config.Framework = "gin"   -> <<Dep("github.com/gin-gonic/gin", "v1.10.0")>>
       [] config.Framework = "echo"  -> <<Dep("github.com/labstack/echo/v4", "v4.11.4")>>
       [] config.Framework = "fiber" -> <<Dep("github.com/gofiber/fiber/v2", "v2.52.0")>>
       [] OTHER -> <<>>)
    \o (IF config.Logger = "zap" THEN <<Dep("go.uber.org/zap", "v1.26.0")>>
        ELSE IF config.Logger = "zerolog" THEN <<Dep("github.com/rs/zerolog", "v1.32.0")>>
        ELSE <<>>)
    \o Opt(HasDatabase(config, "postgres"), <<Dep("github.com/jackc/pgx/v5", "v5.5.1")>>)
    \o Opt(HasDatabase(config, "mysql"), <<Dep("github.com/go-sql-driver/mysql", "v1.7.1")>>)
    \o Opt(HasDatabase(config, "mongodb"), <<Dep("go.mongodb.org/mongo-driver", "v1.13.1")>>)
    \o Opt(HasDatabase(config, "redis"), <<Dep("github.com/redis/go-redis/v9", "v9.4.0")>>)
    \o Opt(config.EnableTracing,
           <<Dep("go.opentelemetry.io/otel", "v1.22.0"),
             Dep("go.opentelemetry.io/otel/sdk", "v1.22.0"),
             Dep("go.opentelemetry.io/otel/exporters/otlp/otlptrace/otlptracegrpc", "v1.22.0")>>)
    \o Opt(config.EnableMetrics, <<Dep("github.com/prometheus/client_golang", "v1.18.0")>>)
    \o (CASE config.ConfigFormat = "yaml" -> <<Dep("gopkg.in/yaml.v3", "v3.0.1")>>
          [] config.ConfigFormat = "toml" -> <<Dep("github.com/BurntSushi/toml", "v1.3.2")>>
          [] OTHER -> <<Dep("github.com/joho/godotenv", "v1.5.1")>>)
    \o <<Dep("github.com/stretchr/testify", "v1.8.4"), Dep("go.uber.org/mock", "v0.4.0")>>

\* strings.Join(deps, "\n") inside the require block of go.mod.
RequireLines(deps) ==
    [i \in 1..Len(deps) |-> "\t" \o deps[i].module \o " " \o deps[i].version]

GoModContent ==
    <<"module " \o config.ModulePath, "go " \o config.GoVersion, "require (">>
    \o RequireLines(buildDependencies) \o <<")">>

getLoggerInitCode ==
    CASE config.Logger = "zap" ->
            <<"logger, err := observability.NewZapLogger(cfg)", "defer logger.Sync()">>
      [] config.Logger = "zerolog" ->
            <<"logger := observability.NewZerologLogger(cfg)">>
      [] OTHER ->
            <<"logger := observability.NewLogger(cfg)",
              "observability.SetDefaultLogger(logger)">>

MainFileContent ==
    <<"package main",
      "\"" \o config.ModulePath \o "/internal/config\"",
      "\"" \o config.ModulePath \o "/internal/observability\"",
      "\"" \o config.ModulePath \o "/internal/server\"",
      "cfg, err := config.Load()">>
    \o getLoggerInitCode
    \o <<"obs, err := observability.New(ctx, cfg)",
         "srv, err := server.New(cfg, obs)",
         "logger.Info(\"Starting server\", \"port\", ",
         getConfigFieldReference("Port"),
         ")">>

\* Mutant: the PostgresURL field is declared whether or not postgres is selected.
getDatabaseConfigFields_AlwaysPostgres ==
    IF ~NeedsSQL(config) /\ ~NeedsNoSQL(config) THEN <<"\tPostgresURL string">>
    ELSE <<"\tPostgresURL string">>
         \o Opt(HasDatabase(config, "mysql"), <<"\tMySQLURL string">>)
         \o Opt(HasDatabase(config, "mongodb"), <<"\tMongoURL string">>)

getDatabaseConfigFields ==
    IF ~NeedsSQL(config) /\ ~NeedsNoSQL(config) THEN <<>>
    ELSE Opt(HasDatabase(config, "postgres"), <<"\tPostgresURL string">>)
         \o Opt(HasDatabase(config, "mysql"), <<"\tMySQLURL string">>)
         \o Opt(HasDatabase(config, "mongodb"), <<"\tMongoURL string">>)

getCacheConfigFields == Opt(HasDatabase(config, "redis"), <<"\tRedisURL string">>)

getTracingConfigFields ==
    Opt(config.EnableTracing, <<"\tOTLPEndpoint string", "\tServiceName  string">>)

getMetricsConfigFields == Opt(config.EnableMetrics, <<"\tMetricsEnabled bool">>)

getConfigLoadStatements ==
    Opt(HasDatabase(config, "postgres"), <<"\tcfg.PostgresURL = getEnv(\"POSTGRES_URL\")">>)
    \o Opt(HasDatabase(config, "mysql"), <<"\tcfg.MySQLURL = getEnv(\"MYSQL_URL\")">>)
    \o Opt(HasDatabase(config, "mongodb"), <<"\tcfg.MongoURL = getEnv(\"MONGO_URL\")">>)
    \o Opt(HasDatabase(config, "redis"), <<"\tcfg.RedisURL = getEnv(\"REDIS_URL\")">>)
    \o Opt(config.EnableTracing,
           <<"\tcfg.OTLPEndpoint = getEnv(\"OTLP_ENDPOINT\")",
             "\tcfg.ServiceName = getEnv(\"SERVICE_NAME\", \"" \o config.ProjectName \o "\")">>)
    \o Opt(config.EnableMetrics, <<"\tcfg.MetricsEnabled = getEnvBool(\"METRICS_ENABLED\")">>)

\* The flat (env) config package.
ConfigPackageContent ==
    <<"package config", "\"github.com/joho/godotenv\"",
      "type Config struct {", "\tEnvironment string", "\tPort        string">>
    \o getDatabaseConfigFields \o getCacheConfigFields
    \o getTracingConfigFields \o getMetricsConfigFields
    \o <<"}", "func Load()">>
    \o getConfigLoadStatements
    \o <<"func (c *Config) validate() error {",
         "func getEnv(key, defaultValue string) string {",
         "func getEnvBool(key string, defaultValue bool) bool {">>

\* ------------------------------------------------- config accessor methods
\* Mutant: the redis accessor is emitted only next to a SQL database.
generateConfigAccessors_CacheOnlyWithSQL ==
    IF config.ConfigFormat = "" \/ config.ConfigFormat = "env" THEN <<>>
    ELSE <<"func (c *Config) GetPort() string",
           "func (c *Config) GetEnvironment() string",
           "func (c *Config) GetLogLevel() string">>
         \o Opt(HasDatabase(config, "postgres"), <<"func (c *Config) GetPostgresURL() string">>)
         \o Opt(HasDatabase(config, "mysql"), <<"func (c *Config) GetMySQLURL() string">>)
         \o Opt(HasDatabase(config, "mongodb"),
                <<"func (c *Config) GetMongoURL() string",
                  "func (c *Config) GetMongoDatabase() string">>)
         \o Opt(NeedsCache(config) /\ NeedsSQL(config),
                <<"func (c *Config) GetRedisURL() string">>)
         \o Opt(config.EnableTracing,
                <<"func (c *Config) GetOTLPEndpoint() string",
                  "func (c *Config) GetServiceName() string",
                  "func (c *Config) IsTracingEnabled() bool">>)
         \o Opt(config.EnableMetrics,
                <<"func (c *Config) IsMetricsEnabled() bool",
                  "func (c *Config) GetMetricsPath() string">>)

generateConfigAccessors ==
    IF config.ConfigFormat = "" \/ config.ConfigFormat = "env" THEN <<>>
    ELSE <<"func (c *Config) GetPort() string",
           "func (c *Config) GetEnvironment() string",
           "func (c *Config) GetLogLevel() string">>
         \o Opt(HasDatabase(config, "postgres"), <<"func (c *Config) GetPostgresURL() string">>)
         \o Opt(HasDatabase(config, "mysql"), <<"func (c *Config) GetMySQLURL() string">>)
         \o Opt(HasDatabase(config, "mongodb"),
                <<"func (c *Config) GetMongoURL() string",
                  "func (c *Config) GetMongoDatabase() string">>)
         \o Opt(NeedsCache(config), <<"func (c *Config) GetRedisURL() string">>)
         \o Opt(config.EnableTracing,
                <<"func (c *Config) GetOTLPEndpoint() string",
                  "func (c *Config) GetServiceName() string",
                  "func (c *Config) IsTracingEnabled() bool">>)
         \o Opt(config.EnableMetrics,
                <<"func (c *Config) IsMetricsEnabled() bool",
                  "func (c *Config) GetMetricsPath() string">>)

\* ---------------------------------------------------------- config_files.go
\* The example file of a structured format (config.yaml.example, ...).
ConfigExampleContent(fmt) ==
    <<"app", "name: " \o config.ProjectName, "port: 8080">>
    \o Opt(NeedsSQL(config) \/ NeedsNoSQL(config), <<"database">>)
    \o Opt(HasDatabase(config, "postgres"), <<"postgres">>)
    \o Opt(HasDatabase(config, "mysql"), <<"mysql">>)
    \o Opt(HasDatabase(config, "mongodb"), <<"mongodb">>)
    \o Opt(HasDatabase(config, "redis"), <<"cache", "redis">>)
    \o Opt(config.EnableTracing \/ config.EnableMetrics, <<"observability">>)

\* generateYAMLConfigLoader / generateJSONConfigLoader / generateTOMLConfigLoader:
\* the three differ in the struct tags, the import and the decoder call.
ConfigLoaderContent(fmt) ==
    <<"package config">>
    \o (CASE fmt = "yaml" -> <<"\"gopkg.in/yaml.v3\"">>
          [] fmt = "json" -> <<"\"encoding/json\"">>
          [] OTHER        -> <<"\"github.com/BurntSushi/toml\"">>)
    \o <<"type Config struct {", "\tApp           AppConfig           " \o fmt \o ":\"app\"">>
    \o Opt(NeedsSQL(config) \/ NeedsNoSQL(config),
           <<"\tDatabase      DatabaseConfig      " \o fmt \o ":\"database\"">>)
    \o Opt(NeedsCache(config),
           <<"\tCache         CacheConfig         " \o fmt \o ":\"cache\"">>)
    \o Opt(config.EnableTracing \/ config.EnableMetrics,
           <<"\tObservability ObservabilityConfig " \o fmt \o ":\"observability\"">>)
    \o <<"}", "type AppConfig struct {">>
    \o Opt(NeedsSQL(config) \/ NeedsNoSQL(config), <<"type DatabaseConfig struct {">>)
    \o Opt(HasDatabase(config, "postgres"), <<"type PostgresConfig struct {">>)
    \o Opt(HasDatabase(config, "mysql"), <<"type MySQLConfig struct {">>)
    \o Opt(HasDatabase(config, "mongodb"), <<"type MongoDBConfig struct {">>)
    \o Opt(NeedsCache(config), <<"type CacheConfig struct {", "type RedisConfig struct {">>)
    \o Opt(config.EnableTracing \/ config.EnableMetrics, <<"type ObservabilityConfig struct {">>)
    \o Opt(config.EnableTracing, <<"type TracingConfig struct {">>)
    \o Opt(config.EnableMetrics, <<"type MetricsConfig struct {">>)
    \o <<"func Load()",
         "func (c *Config) applyEnvOverrides() {",
         "c.App.Environment = env",
         "func (c *Config) validate() error {">>

\* ------------------------------------------------------------------ server
\* The server file receives PortRef and EnvRef from the resolver; the text
\* around them is that of getServerContent (the gin server tests the
\* environment, every server builds its address from the port).
getServerContent ==
    <<"package server",
      "\"" \o config.ModulePath \o "/internal/config\"",
      "\"" \o config.ModulePath \o "/internal/handlers\"",
      "\"" \o config.ModulePath \o "/internal/observability\"">>
    \o Opt(config.Framework = "gin",
           <<"if ", getConfigFieldReference("Environment"), " == \"production\" {">>)
    \o <<"handler := handlers.NewHandler(cfg, obs)">>
    \o Opt(config.EnableMetrics, <<"/metrics">>)
    \o <<"Addr: \":\" + ", getConfigFieldReference("Port")>>

\* ---------------------------------------------------------------- handlers
getFrameworkSpecificHandlers ==
    CASE config.Framework = "gin" ->
            <<"func (h *Handler) IndexGin(c *gin.Context) {",
              "\"environment\": ", "h.config.Environment">>
            \o Opt(config.EnableMetrics, <<"func (h *Handler) MetricsGin(c *gin.Context) {">>)
      [] config.Framework = "echo" ->
            <<"func (h *Handler) IndexEcho(c echo.Context) error {",
              "\"environment\": ", "h.config.Environment">>
            \o Opt(config.EnableMetrics, <<"func (h *Handler) MetricsEcho(c echo.Context) error {">>)
      [] config.Framework = "fiber" ->
            <<"func (h *Handler) IndexFiber(c *fiber.Ctx) error {",
              "\"environment\": ", "h.config.Environment">>
            \o Opt(config.EnableMetrics, <<"func (h *Handler) MetricsFiber(c *fiber.Ctx) error {">>)
      [] OTHER -> <<>>

getHandlersContent ==
    <<"package handlers",
      "\"" \o config.ModulePath \o "/internal/config\"",
      "\"" \o config.ModulePath \o "/internal/observability\"">>
    \o (CASE config.Framework = "gin"   -> <<"\"github.com/gin-gonic/gin\"">>
          [] config.Framework = "echo"  -> <<"\"github.com/labstack/echo/v4\"">>
          [] config.Framework = "fiber" -> <<"\"github.com/gofiber/fiber/v2\"">>
          [] OTHER -> <<>>)
    \o Opt(config.EnableMetrics, <<"\"github.com/prometheus/client_golang/prometheus/promhttp\"">>)
    \o <<"type Handler struct {",
         "func (h *Handler) Index(w http.ResponseWriter, r *http.Request) {",
         "Welcome to " \o config.ProjectName,
         "\"environment\": ", "h.config.Environment">>
    \o getFrameworkSpecificHandlers

\* ----------------------------------------------------------- observability
getLoggerInitialization ==
    CASE config.Logger = "zap"     -> <<"logger, err := NewZapLogger(cfg)", "obs.Logger = logger">>
      [] config.Logger = "zerolog" -> <<"obs.Logger = NewZerologLogger(cfg)">>
      [] OTHER                     -> <<"obs.Logger = NewLogger(cfg)">>

getTracerImplementation ==
    <<"func initTracer(ctx context.Context, cfg *config.Config)",
      "otlptracegrpc.WithEndpoint(", "cfg.OTLPEndpoint", ")",
      "semconv.ServiceName(", "cfg.ServiceName", ")">>

getObservabilityContent ==
    <<"package observability", "\"" \o config.ModulePath \o "/internal/config\"">>
    \o (CASE config.Logger = "slog"    -> <<"\"log/slog\"", "Logger *slog.Logger">>
          [] config.Logger = "zap"     -> <<"\"go.uber.org/zap\"", "Logger *zap.Logger">>
          [] config.Logger = "zerolog" -> <<"\"github.com/rs/zerolog\"", "Logger *zerolog.Logger">>
          [] OTHER                     -> <<"Logger interface{}">>)
    \o Opt(config.EnableTracing,
           <<"\"go.opentelemetry.io/otel\"", "TracerProvider trace.TracerProvider">>)
    \o Opt(config.EnableMetrics,
           <<"\"github.com/prometheus/client_golang/prometheus\"",
             "httpRequestsTotal    *prometheus.CounterVec">>)
    \o <<"func New(ctx context.Context, cfg *config.Config)">>
    \o getLoggerInitialization
    \o Opt(config.EnableTracing, <<"tp, shutdown, err := initTracer(ctx, cfg)">>)
    \o Opt(config.EnableMetrics, <<"func (o *Observability) MetricsHandler() http.Handler {">>)
    \o Opt(config.EnableTracing, getTracerImplementation)

getLoggerFileContent ==
    CASE config.Logger = "slog" ->
            <<"package observability", "\"log/slog\"",
              "\"" \o config.ModulePath \o "/internal/config\"",
              "func NewLogger(cfg *config.Config) *slog.Logger {",
              "if ", "cfg.Environment", " == \"production\" {",
              "func SetDefaultLogger(logger *slog.Logger) {">>
      [] config.Logger = "zap" ->
            <<"package observability", "\"go.uber.org/zap\"",
              "\"" \o config.ModulePath \o "/internal/config\"",
              "func NewZapLogger(cfg *config.Config) (logger *zap.Logger, err error) {",
              "if ", "cfg.Environment", " == \"production\" {">>
      [] config.Logger = "zerolog" ->
            <<"package observability", "\"github.com/rs/zerolog\"",
              "\"" \o config.ModulePath \o "/internal/config\"",
              "func NewZerologLogger(cfg *config.Config) *zerolog.Logger {",
              "if ", "cfg.Environment", " == \"production\" {">>
      [] OTHER -> <<>>

getMiddlewareContent ==
    <<"package middleware">>
    \o (CASE config.Logger = "slog"    -> <<"\"log/slog\"">>
          [] config.Logger = "zap"     -> <<"\"go.uber.org/zap\"">>
          [] config.Logger = "zerolog" -> <<"\"github.com/rs/zerolog\"">>
          [] OTHER                     -> <<>>)
    \o (CASE config.Framework = "gin"   -> <<"\"github.com/gin-gonic/gin\"">>
          [] config.Framework = "echo"  -> <<"\"github.com/labstack/echo/v4\"">>
          [] config.Framework = "fiber" -> <<"\"github.com/gofiber/fiber/v2\"">>
          [] OTHER -> <<>>)
    \o Opt(config.EnableTracing, <<"\"go.opentelemetry.io/otel\"">>)
    \o <<"\"github.com/google/uuid\"", "const RequestIDKey contextKey = \"requestID\"">>

\* ------------------------------------------------------------- database.go
\* Mutant: the connection URL is read from the flat field whatever the format
\* (the code before the adapter was introduced).
PostgresDBContent_FlatURL ==
    <<"package database", "\"github.com/jackc/pgx/v5/pgxpool\"",
      "\"" \o config.ModulePath \o "/internal/config\"",
      "pool, err := pgxpool.New(ctx, ", "cfg.PostgresURL", ")">>

PostgresDBContent ==
    <<"package database", "\"github.com/jackc/pgx/v5/pgxpool\"",
      "\"" \o config.ModulePath \o "/internal/config\"",
      "pool, err := pgxpool.New(ctx, ", getConfigFieldReference("PostgresURL"), ")">>

MySQLDBContent ==
    <<"package database", "_ \"github.com/go-sql-driver/mysql\"",
      "\"" \o config.ModulePath \o "/internal/config\"",
      "db, err := sql.Open(\"mysql\", ", getConfigFieldReference("MySQLURL"), ")">>

MongoDBContent ==
    <<"package database", "\"go.mongodb.org/mongo-driver/mongo\"",
      "\"" \o config.ModulePath \o "/internal/config\"",
      "clientOptions := options.Client().ApplyURI(", getConfigFieldReference("MongoURL"), ")">>

CachePackageContent ==
    <<"package cache", "\"github.com/redis/go-redis/v9\"",
      "\"" \o config.ModulePath \o "/internal/config\"",
      "opts, err := redis.ParseURL(", getConfigFieldReference("RedisURL"), ")">>

\* ------------------------------------------------- files.go, docker.go, ci.go
MakefileContent ==
    <<"build", config.ProjectName, config.GoVersion>>
    \o Opt(config.IncludeDocker, <<"docker-up">>)

EnvFileContent ==
    <<"ENVIRONMENT=development", "PORT=8080">>
    \o Opt(HasDatabase(config, "postgres"), <<"POSTGRES_URL">>)
    \o Opt(HasDatabase(config, "mysql"), <<"MYSQL_URL">>)
    \o Opt(HasDatabase(config, "mongodb"), <<"MONGO_URL">>)
    \o Opt(HasDatabase(config, "redis"), <<"REDIS_URL">>)
    \o Opt(config.EnableTracing, <<"OTLP_ENDPOINT", "SERVICE_NAME=" \o config.ProjectName>>)
    \o Opt(config.EnableMetrics, <<"METRICS_ENABLED=true">>)
    \o Opt(config.EnvSample, <<"# " \o config.ProjectName \o " Environment Configuration">>)

ReadmeContent ==
    <<"# " \o config.ProjectName>>
    \o Opt(config.Databases # {}, <<"- **Databases**">>)
    \o Opt(config.EnableTracing, <<"- **Distributed Tracing**: OpenTelemetry">>)
    \o Opt(config.EnableMetrics, <<"- **Metrics**: Prometheus">>)
    \o Opt(config.IncludeDocker /\ config.Databases # {}, <<"make docker-up">>)

DockerfileContent == <<"FROM golang:" \o config.GoVersion, config.ProjectName>>

DockerComposeContent ==
    <<"services:", "app:">>
    \o Opt(HasDatabase(config, "postgres"), <<"postgres:">>)
    \o Opt(HasDatabase(config, "mysql"), <<"mysql:">>)
    \o Opt(HasDatabase(config, "mongodb"), <<"mongodb:">>)
    \o Opt(HasDatabase(config, "redis"), <<"redis:">>)

DockerignoreContent == <<".git", "bin/", ".env">>

GitHubActionsContent ==
    <<"name: CI", "go-version: " \o config.GoVersion>>
    \o Opt(config.Databases # {}, <<"services:">>)

GitLabCIContent ==
    <<"image: golang:" \o config.GoVersion>>
    \o Opt(config.Databases # {}, <<"services:">>)

GitignoreContent == <<"bin/", ".env", "vendor/">>

\* ----------------------------------------------------------------- tests.go
getTestConfigFields ==
    IF config.ConfigFormat = "" \/ config.ConfigFormat = "env"
    THEN <<"Environment: \"test\",", "Port:        \"8080\",">>
    ELSE <<"App: config.AppConfig{", "Environment: \"test\",", "Port:        8080,">>

getHandlerTestContent ==
    <<"package handlers", "\"" \o config.ModulePath \o "/internal/config\"">>
    \o (CASE config.Framework = "gin"   -> <<"\"github.com/gin-gonic/gin\"">>
          [] config.Framework = "echo"  -> <<"\"github.com/labstack/echo/v4\"">>
          [] config.Framework = "fiber" -> <<"\"github.com/gofiber/fiber/v2\"">>
          [] OTHER -> <<>>)
    \o <<"suite.config = &config.Config{">>
    \o getTestConfigFields
    \o <<getConfigFieldReference("Environment")>>

getMockInterfacesContent ==
    IF ~HasDatabase(config, "postgres") /\ ~NeedsCache(config) THEN <<>>
    ELSE <<"package mocks">>
         \o Opt(HasDatabase(config, "postgres"), <<"type DatabaseInterface interface {">>)
         \o Opt(NeedsCache(config), <<"type CacheInterface interface {">>)
         \o <<"//go:generate mockgen -source=interfaces.go -destination=mocks.go -package=mocks">>

getTestSuiteExampleContent ==
    <<"package database", "\"github.com/stretchr/testify/suite\"">>
    \o Opt(HasDatabase(config, "postgres"),
           <<"\"go.uber.org/mock/gomock\"", "\"" \o config.ModulePath \o "/internal/mocks\"">>)
    \o <<"mockDB  *mocks.MockDatabaseInterface">>
    \o Opt(HasDatabase(config, "postgres"),
           <<"suite.mockDB = mocks.NewMockDatabaseInterface(ctrl)">>)

getTestingReadmeContent == <<"# Testing Guide">>

\* ---------------------------------------------------------------- Validate
\* Mutant: the name may also hold dots and slashes.
projectNameRegex_AllowsPathChars(cs) ==
    /\ Len(cs) > 0
    /\ \A i \in 1..Len(cs) : cs[i] \in Lower \cup Digit \cup {"-", "_", ".", "/"}

\* ^[a-z0-9][a-z0-9-_]*$
projectNameRegex(cs) ==
    /\ Len(cs) > 0
    /\ cs[1] \in Lower \cup Digit
    /\ \A i \in 2..Len(cs) : cs[i] \in Lower \cup Digit \cup {"-", "_"}

\* ^[a-zA-Z0-9][a-zA-Z0-9._-]*(/[a-zA-Z0-9][a-zA-Z0-9._-]*)+$
modulePathRegex(cs) ==
    /\ Len(cs) > 0
    /\ cs[1] \in Lower \cup Upper \cup Digit
    /\ cs[Len(cs)] # "/"
    /\ \E i \in 1..Len(cs) : cs[i] = "/"
    /\ \A i \in 2..Len(cs) :
          /\ cs[i] \in Lower \cup Upper \cup Digit \cup {".", "_", "-", "/"}
          /\ cs[i-1] = "/" => cs[i] \in Lower \cup Upper \cup Digit

\* Mutant: the config format is checked before the logger.
Validate_FormatBeforeLogger(c) ==
    CASE c.ProjectName = "" -> "project name is required"
      [] ~projectNameRegex(Chars(c.ProjectName)) -> "project name must start with lowercase letter or number"
      [] c.ModulePath = "" -> "module path is required"
      [] ~modulePathRegex(Chars(c.ModulePath)) -> "module path must be a valid Go module path"
      [] c.GoVersion = "" -> "Go version is required"
      [] c.GoVersion \notin {"1.21", "1.22", "1.23", "1.24"} -> "Go version must be one of"
      [] c.Framework # "" /\ c.Framework \notin {"stdlib", "chi", "gin", "echo", "fiber"} ->
            "framework must be one of"
      [] c.ConfigFormat \notin {"", "env", "yaml", "json", "toml"} ->
            "config format must be one of: env, yaml, json, toml"
      [] c.Logger # "" /\ c.Logger \notin {"slog", "zap", "zerolog"} -> "logger must be one of"
      [] OTHER -> ""

\* The error Validate returns, "" for nil.
Validate(c) ==
    CASE c.ProjectName = "" -> "project name is required"
      [] ~projectNameRegex(Chars(c.ProjectName)) -> "project name must start with lowercase letter or number"
      [] c.ModulePath = "" -> "module path is required"
      [] ~modulePathRegex(Chars(c.ModulePath)) -> "module path must be a valid Go module path"
      [] c.GoVersion = "" -> "Go version is required"
      [] c.GoVersion \notin {"1.21", "1.22", "1.23", "1.24"} -> "Go version must be one of"
      [] c.Framework # "" /\ c.Framework \notin {"stdlib", "chi", "gin", "echo", "fiber"} ->
            "framework must be one of"
      [] c.Logger # "" /\ c.Logger \notin {"slog", "zap", "zerolog"} -> "logger must be one of"
      [] c.ConfigFormat \notin {"", "env", "yaml", "json", "toml"} ->
            "config format must be one of: env, yaml, json, toml"
      [] OTHER -> ""

\* ------------------------------------------------------ generator behaviours
Frameworks == {"", "stdlib", "chi", "gin", "echo", "fiber"}

Loggers == {"", "slog", "zap", "zerolog"}

\* Docker and CI on and off (Validate does not look at CI, so a CI system the
\* generator does not know is a valid configuration), with and without
\* databases.
CISystems == {"", "github", "gitlab", "jenkins"}

OptionConfigs ==
    {[BaseConfig EXCEPT !.IncludeDocker = dk, !.CI = ci, !.Databases = d, !.ConfigFormat = f] :
        dk \in BOOLEAN, ci \in CISystems, d \in {{}, {"postgres", "redis"}}, f \in {"env", "yaml"}}

\* What Validate is applied to: every combination of a few accepted and
\* rejected values of each field it looks at.
ProjectNames == {"app", "my-app_1", "", "App", "../.."}

ModulePaths == {"github.com/test/app", "", "noslash", "a//b"}

GoVersions == {"1.21", "1.24", "", "1.20"}

ValidateConfigs ==
    {[BaseConfig EXCEPT !.ProjectName = n, !.ModulePath = m, !.GoVersion = v,
                        !.Framework = fw, !.Logger = l, !.ConfigFormat = f] :
        n \in ProjectNames, m \in ModulePaths, v \in GoVersions,
        fw \in {"stdlib", "", "flask"}, l \in {"slog", "", "log"}, f \in {"env", "xml"}}

\* The configurations that are run on every output directory.
PathConfigs ==
    {c \in ValidateConfigs : c.ModulePath = "github.com/test/app" /\ c.GoVersion = "1.21"
                              /\ c.Framework = "stdlib" /\ c.Logger = "slog"}
    \cup {c \in OptionConfigs : c.IncludeDocker /\ c.CI = "github"}

\* The configurations Generate is run on: every format with every selection
\* of databases, tracing and metrics; every format with every framework,
\* every logger and tracing on and off; one configuration Validate rejects.
GenConfigs ==
    {[BaseConfig EXCEPT !.ConfigFormat = f, !.Databases = d,
                        !.EnableTracing = t, !.EnableMetrics = m] :
        f \in ResolverFormats, d \in SUBSET AllDatabases, t \in BOOLEAN, m \in BOOLEAN}
    \cup
    {[BaseConfig EXCEPT !.ConfigFormat = f, !.Framework = fw, !.Logger = l,
                        !.EnableTracing = t] :
        f \in ResolverFormats, fw \in Frameworks, l \in Loggers, t \in BOOLEAN}
    \cup
    {[BaseConfig EXCEPT !.ConfigFormat = "xml"]}
    \cup OptionConfigs
    \cup ValidateConfigs

Init ==
    /\ config \in GenConfigs
    /\ outputDir \in (IF config \in PathConfigs THEN OutputDirs ELSE {<<"out">>})
    /\ pc = "Generate"
    /\ files = EmptyFiles
    /\ dirs = {}
    /\ genErr = "running"
    /\ ncalls = 0
    /\ first = NoCall
    /\ last = NoCall
    /\ runs = 1
    /\ prev = NoRun
    /\ wlog = <<>>
    /\ AuxInit

\* g.writeFile(relativePath, content): the full path and the content.
File(rel, content) == [path |-> Join(projectDir, rel), content |-> content]

Dir(path) == SubSeq(path, 1, Len(path) - 1)

\* Mutant: a write appends to the content the file already has.
WriteFiles_Append(ops, k) ==
    LET written == {ops[i].path : i \in 1..k}
        lastOf(p) == CHOOSE i \in 1..k :
                        /\ ops[i].path = p
                        /\ \A j \in 1..k : ops[j].path = p => j <= i
    IN  [p \in DOMAIN files \cup written |->
            IF p \in written
            THEN (IF p \in DOMAIN files THEN files[p] ELSE <<>>) \o ops[lastOf(p)].content
            ELSE files[p]]

\* The files after the first k writes of ops (a later write of a path
\* replaces the earlier one).
WriteFiles(ops, k) ==
    LET written == {ops[i].path : i \in 1..k}
        lastOf(p) == CHOOSE i \in 1..k :
                        /\ ops[i].path = p
                        /\ \A j \in 1..k : ops[j].path = p => j <= i
    IN  [p \in DOMAIN files \cup written |->
            IF p \in written THEN ops[lastOf(p)].content ELSE files[p]]

\* Mutant: a step whose write failed records the error and the pipeline goes on.
RunWrites_ContinuesAfterError(ops, next) ==
    \E k \in 0..Len(ops) :
        /\ files' = WriteFiles(ops, k)
        /\ dirs' = dirs \cup UNION {WithParents(Dir(ops[i].path)) : i \in 1..k}
        /\ pc' = next
        /\ genErr' = IF k < Len(ops) THEN "file system error"
                     ELSE IF next = "done" THEN "" ELSE genErr
        /\ wlog' = wlog \o [i \in 1..k |-> ops[i].path]
        /\ UNCHANGED <<config, ncalls, first, last, outputDir, runs, prev, auxVars>>

\* A generation step that makes the writes ops in order.  WriteFile creates
\* the parent directories; any write may return an error, which the step and
\* Generate return at once; the last step returns nil.
RunWrites(ops, next) ==
    \E k \in 0..Len(ops) :
        /\ files' = WriteFiles(ops, k)
        /\ dirs' = dirs \cup UNION {WithParents(Dir(ops[i].path)) : i \in 1..k}
        /\ IF k = Len(ops)
           THEN /\ pc' = next
                /\ genErr' = IF next = "done" THEN "" ELSE genErr
           ELSE /\ pc' = "done"
                /\ genErr' = "file system error"
        /\ wlog' = wlog \o [i \in 1..k |-> ops[i].path]
        /\ UNCHANGED <<config, ncalls, first, last, outputDir, runs, prev, auxVars>>

\* Mutant: the result of Validate is not looked at.
GenerateValidate_IgnoresError ==
    /\ pc = "Generate"
    /\ pc' = "createDirectoryStructure"
    /\ UNCHANGED <<config, files, dirs, genErr, ncalls, first, last, outputDir, runs, prev,
                   wlog, auxVars>>

\* Generate, lines 47-50.
GenerateValidate ==
    /\ pc = "Generate"
    /\ IF Validate(config) # ""
       THEN /\ pc' = "done"
            /\ genErr' = "invalid configuration: " \o Validate(config)
       ELSE /\ pc' = "createDirectoryStructure"
            /\ UNCHANGED genErr
    /\ UNCHANGED <<config, files, dirs, ncalls, first, last, outputDir, runs, prev,
                   wlog, auxVars>>

directories ==
    <<projectDir,
      Join(projectDir, <<"cmd">> \o Components(config.ProjectName)),
      Join(projectDir, <<"internal", "config">>),
      Join(projectDir, <<"internal", "server">>),
      Join(projectDir, <<"internal", "handlers">>),
      Join(projectDir, <<"internal", "middleware">>),
      Join(projectDir, <<"internal", "observability">>),
      Join(projectDir, <<"pkg">>)>>
    \o Opt(NeedsSQL(config) \/ NeedsNoSQL(config), <<Join(projectDir, <<"internal", "database">>)>>)
    \o Opt(NeedsCache(config), <<Join(projectDir, <<"internal", "cache">>)>>)
    \o <<Join(projectDir, <<"internal", "mocks">>), Join(projectDir, <<"docs">>)>>

createDirectoryStructure ==
    /\ pc = "createDirectoryStructure"
    /\ \E k \in 0..Len(directories) :
        /\ dirs' = dirs \cup UNION {WithParents(directories[i]) : i \in 1..k}
        /\ IF k = Len(directories)
           THEN pc' = "generateGoMod" /\ UNCHANGED genErr
           ELSE pc' = "done" /\ genErr' = "failed to create directory structure"
    /\ UNCHANGED <<config, files, ncalls, first, last, outputDir, runs, prev, wlog, auxVars>>

generateGoMod ==
    /\ pc = "generateGoMod"
    /\ RunWrites(<<File(<<"go.mod">>, GoModContent)>>, "generateMainFile")

generateMainFile ==
    /\ pc = "generateMainFile"
    /\ RunWrites(<<File(<<"cmd">> \o Components(config.ProjectName) \o <<"main.go">>, MainFileContent)>>,
                 "generateConfigPackage")

\* Mutant: the env config package is written whatever the format.
generateConfigPackage_Always ==
    /\ pc = "generateConfigPackage"
    /\ RunWrites(<<File(<<"internal", "config", "config.go">>, ConfigPackageContent)>>,
                 "generateServerPackage")

generateConfigPackage ==
    /\ pc = "generateConfigPackage"
    /\ RunWrites(Opt(config.ConfigFormat = "" \/ config.ConfigFormat = "env",
                     <<File(<<"internal", "config", "config.go">>, ConfigPackageContent)>>),
                 "generateServerPackage")

generateServerPackage ==
    /\ pc = "generateServerPackage"
    /\ RunWrites(<<File(<<"internal", "server", "server.go">>, getServerContent)>>,
                 "generateHandlers")

generateHandlers ==
    /\ pc = "generateHandlers"
    /\ RunWrites(<<File(<<"internal", "handlers", "handlers.go">>, getHandlersContent)>>,
                 "generateMiddleware")

generateMiddleware ==
    /\ pc = "generateMiddleware"
    /\ RunWrites(<<File(<<"internal", "middleware", "middleware.go">>, getMiddlewareContent)>>,
                 "generateObservability")

generateObservability ==
    /\ pc = "generateObservability"
    /\ RunWrites(<<File(<<"internal", "observability", "observability.go">>,
                        getObservabilityContent)>>,
                 "generateLoggerFile")

generateLoggerFile ==
    /\ pc = "generateLoggerFile"
    /\ RunWrites(<<File(<<"internal", "observability", "logger.go">>, getLoggerFileContent)>>,
                 "generateDatabasePackages")

generateDatabasePackages ==
    /\ pc = "generateDatabasePackages"
    /\ RunWrites(Opt(NeedsSQL(config) \/ NeedsNoSQL(config),
                     Opt(HasDatabase(config, "postgres"),
                         <<File(<<"internal", "database", "postgres.go">>, PostgresDBContent)>>)
                     \o Opt(HasDatabase(config, "mysql"),
                         <<File(<<"internal", "database", "mysql.go">>, MySQLDBContent)>>)
                     \o Opt(HasDatabase(config, "mongodb"),
                         <<File(<<"internal", "database", "mongodb.go">>, MongoDBContent)>>)),
                 "generateCachePackage")

generateCachePackage ==
    /\ pc = "generateCachePackage"
    /\ RunWrites(Opt(NeedsCache(config),
                     <<File(<<"internal", "cache", "redis.go">>, CachePackageContent)>>),
                 "generateMakefile")

generateMakefile ==
    /\ pc = "generateMakefile"
    /\ RunWrites(<<File(<<"Makefile">>, MakefileContent)>>, "generateEnvFile")

generateEnvFile ==
    /\ pc = "generateEnvFile"
    /\ RunWrites(<<File(<<".env.example">>, EnvFileContent)>>, "generateConfigFiles")

\* Mutant: every format other than env gets the yaml example and loader.
generateConfigFiles_AlwaysYAML ==
    /\ pc = "generateConfigFiles"
    /\ RunWrites(Opt(config.ConfigFormat # "env",
                     <<File(<<"config.yaml.example">>, ConfigExampleContent("yaml")),
                       File(<<"internal", "config", "config.go">>,
                            ConfigLoaderContent("yaml"))>>),
                 "generateReadme")

\* Generate, lines 112-116, and generateConfigFiles.
generateConfigFiles ==
    /\ pc = "generateConfigFiles"
    /\ RunWrites(Opt(config.ConfigFormat # "env" /\ config.ConfigFormat \in StructuredFormats,
                     <<File(<<"config." \o config.ConfigFormat \o ".example">>,
                            ConfigExampleContent(config.ConfigFormat)),
                       File(<<"internal", "config", "config.go">>,
                            ConfigLoaderContent(config.ConfigFormat))>>),
                 "generateReadme")

generateReadme ==
    /\ pc = "generateReadme"
    /\ RunWrites(<<File(<<"README.md">>, ReadmeContent)>>, "generateDockerFiles")

generateDockerFiles ==
    /\ pc = "generateDockerFiles"
    /\ RunWrites(Opt(config.IncludeDocker,
                     <<File(<<"Dockerfile">>, DockerfileContent),
                       File(<<"docker-compose.yml">>, DockerComposeContent),
                       File(<<".dockerignore">>, DockerignoreContent)>>),
                 "generateCIFiles")

\* Mutant: every non-empty CI system gets the GitHub workflow.
generateCIFiles_AnyCI ==
    /\ pc = "generateCIFiles"
    /\ RunWrites(Opt(config.CI # "",
                     <<File(<<".github", "workflows", "ci.yml">>, GitHubActionsContent)>>)
                 \o Opt(config.CI = "gitlab",
                     <<File(<<".gitlab-ci.yml">>, GitLabCIContent)>>),
                 "generateGitignore")

generateCIFiles ==
    /\ pc = "generateCIFiles"
    /\ RunWrites(Opt(config.CI = "github",
                     <<File(<<".github", "workflows", "ci.yml">>, GitHubActionsContent)>>)
                 \o Opt(config.CI = "gitlab",
                     <<File(<<".gitlab-ci.yml">>, GitLabCIContent)>>),
                 "generateGitignore")

generateGitignore ==
    /\ pc = "generateGitignore"
    /\ RunWrites(<<File(<<".gitignore">>, GitignoreContent)>>, "generateTestFiles")

generateTestFiles ==
    /\ pc = "generateTestFiles"
    /\ RunWrites(<<File(<<"internal", "handlers", "handlers_test.go">>, getHandlerTestContent)>>
                 \o Opt((NeedsSQL(config) \/ NeedsNoSQL(config)) /\ getMockInterfacesContent # <<>>,
                     <<File(<<"internal", "mocks", "interfaces.go">>, getMockInterfacesContent)>>)
                 \o Opt(NeedsSQL(config) \/ NeedsNoSQL(config),
                     <<File(<<"internal", "database", "database_test.go">>,
                            getTestSuiteExampleContent)>>)
                 \o <<File(<<"docs", "TESTING.md">>, getTestingReadmeContent)>>,
                 "done")

\* Generate is called again after it returned nil: by the same Generator on
\* the same file system, or by a Generator with an equal configuration and
\* output directory on a fresh file system.
GenerateAgain(fresh) ==
    /\ pc = "done"
    /\ genErr = ""
    /\ runs < MaxRuns
    /\ runs' = runs + 1
    /\ prev' = [files |-> files, fresh |-> fresh]
    /\ pc' = "Generate"
    /\ genErr' = "running"
    /\ files' = IF fresh THEN EmptyFiles ELSE files
    /\ dirs' = IF fresh THEN {} ELSE dirs
    /\ wlog' = <<>>
    /\ UNCHANGED <<config, ncalls, first, last, outputDir, auxVars>>

Next ==
    \/ \E fresh \in BOOLEAN : GenerateAgain(fresh)
    \/ GenerateValidate
    \/ createDirectoryStructure
    \/ generateGoMod
    \/ generateMainFile
    \/ generateConfigPackage
    \/ generateServerPackage
    \/ generateHandlers
    \/ generateMiddleware
    \/ generateObservability
    \/ generateLoggerFile
    \/ generateDatabasePackages
    \/ generateCachePackage
    \/ generateMakefile
    \/ generateEnvFile
    \/ generateConfigFiles
    \/ generateReadme
    \/ generateDockerFiles
    \/ generateCIFiles
    \/ generateGitignore
    \/ generateTestFiles

Spec == Init /\ [][Next]_vars

Succeeded == pc = "done" /\ genErr = ""

FileExists(rel) == Join(projectDir, rel) \in DOMAIN files

FileContent(rel) == files[Join(projectDir, rel)]

\* ------------------------------------------------ claims on generated files
\* The connection file of a database and the catalog field of its URL.
ConnectionFile(db) ==
    CASE db = "postgres" -> <<"internal", "database", "postgres.go">>
      [] db = "mysql"    -> <<"internal", "database", "mysql.go">>
      [] db = "mongodb"  -> <<"internal", "database", "mongodb.go">>
      [] db = "redis"    -> <<"internal", "cache", "redis.go">>

URLField(db) ==
    CASE db = "postgres" -> "PostgresURL"
      [] db = "mysql"    -> "MySQLURL"
      [] db = "mongodb"  -> "MongoURL"
      [] db = "redis"    -> "RedisURL"

AccessorCall(f) == "cfg.Get" \o f \o "()"

FlatAccess(f) == "cfg." \o f

\* C6: for every valid format and every selected database, the connection
\* file Generate writes contains the accessor call cfg.Get<X>URL() under yaml,
\* json and toml, and the flat access cfg.<X>URL (and no accessor call) under
\* env and the empty format.
C6_ConnectionFileUsesResolver ==
    \A db \in config.Databases :
        /\ Succeeded => FileExists(ConnectionFile(db))
        /\ FileExists(ConnectionFile(db)) =>
              IF config.ConfigFormat \in StructuredFormats
              THEN /\ Contains(FileContent(ConnectionFile(db)), AccessorCall(URLField(db)))
                   /\ ~Contains(FileContent(ConnectionFile(db)), FlatAccess(URLField(db)))
              ELSE /\ Contains(FileContent(ConnectionFile(db)), FlatAccess(URLField(db)))
                   /\ ~Contains(FileContent(ConnectionFile(db)), AccessorCall(URLField(db)))

C6_Witness ==
    /\ Succeeded
    /\ config.ConfigFormat = "json"
    /\ config.Databases = {"postgres", "redis"}
    /\ Contains(FileContent(ConnectionFile("postgres")), "cfg.GetPostgresURL()")
    /\ Contains(FileContent(ConnectionFile("redis")), "cfg.GetRedisURL()")

ConfigGo == <<"internal", "config", "config.go">>

\* C7: after a successful Generate with a structured format the generated
\* internal/config/config.go defines GetPort and GetEnvironment, GetPostgresURL
\* when postgres is selected, GetRedisURL when redis is selected, and
\* GetOTLPEndpoint and GetServiceName when tracing is enabled.
C7_AccessorsInConfigGo ==
    (Succeeded /\ config.ConfigFormat \in StructuredFormats) =>
        /\ FileExists(ConfigGo)
        /\ Contains(FileContent(ConfigGo), "func (c *Config) GetPort() string")
        /\ Contains(FileContent(ConfigGo), "func (c *Config) GetEnvironment() string")
        /\ HasDatabase(config, "postgres") =>
              Contains(FileContent(ConfigGo), "func (c *Config) GetPostgresURL() string")
        /\ HasDatabase(config, "redis") =>
              Contains(FileContent(ConfigGo), "func (c *Config) GetRedisURL() string")
        /\ config.EnableTracing =>
              /\ Contains(FileContent(ConfigGo), "func (c *Config) GetOTLPEndpoint() string")
              /\ Contains(FileContent(ConfigGo), "func (c *Config) GetServiceName() string")

\* The files of the downstream generators (server, handlers, observability,
\* logger, database, cache).
DownstreamFiles ==
    {<<"internal", "server", "server.go">>,
     <<"internal", "handlers", "handlers.go">>,
     <<"internal", "observability", "observability.go">>,
     <<"internal", "observability", "logger.go">>}
    \cup {ConnectionFile(db) : db \in AllDatabases}

DirectFieldAccesses == {"cfg." \o f : f \in Catalog} \cup {"h.config." \o f : f \in Catalog}

\* C8: for a structured format no generated server, handlers, observability,
\* logger or database file reads a catalog field by direct flat access
\* (cfg.<Field>, h.config.<Field>).
C8_NoDirectFieldAccess ==
    (Succeeded /\ config.ConfigFormat \in StructuredFormats) =>
        \A rel \in DownstreamFiles :
            FileExists(rel) => Fragments(FileContent(rel)) \cap DirectFieldAccesses = {}

\* Every method definition generateConfigAccessors can emit.
AccessorDefinitions ==
    {"func (c *Config) GetPort() string",
     "func (c *Config) GetEnvironment() string",
     "func (c *Config) GetLogLevel() string",
     "func (c *Config) GetPostgresURL() string",
     "func (c *Config) GetMySQLURL() string",
     "func (c *Config) GetMongoURL() string",
     "func (c *Config) GetMongoDatabase() string",
     "func (c *Config) GetRedisURL() string",
     "func (c *Config) GetOTLPEndpoint() string",
     "func (c *Config) GetServiceName() string",
     "func (c *Config) GetMetricsPath() string"}

\* C10: for format "env" or empty, generateConfigAccessors returns the empty
\* string, and after a successful Generate internal/config/config.go is the
\* flat struct: it declares the PostgresURL / MySQLURL / MongoURL / RedisURL
\* string field exactly for the selected databases and defines no Get*
\* accessor method.
C10_FlatConfigForEnv ==
    config.ConfigFormat \in FlatFormats =>
        /\ generateConfigAccessors = <<>>
        /\ Succeeded =>
              /\ FileExists(ConfigGo)
              /\ Contains(FileContent(ConfigGo), "\tPort        string")
              /\ \A db \in AllDatabases :
                    Contains(FileContent(ConfigGo), "\t" \o URLField(db) \o " string")
                        <=> db \in config.Databases
              /\ Fragments(FileContent(ConfigGo)) \cap AccessorDefinitions = {}

C10_Witness ==
    /\ Succeeded
    /\ config.ConfigFormat = ""
    /\ config.Databases = {"postgres", "redis"}
    /\ Contains(FileContent(ConfigGo), "\tPostgresURL string")
    /\ Contains(FileContent(ConfigGo), "\tRedisURL string")
    /\ ~Contains(FileContent(ConfigGo), "\tMySQLURL string")

\* ------------------------------------------------- claims on the pipeline
\* C11: if Config.Validate fails, Generate returns an error whose message
\* holds "invalid configuration" and makes no MkdirAll and no WriteFile: no
\* directory and no file is created.
C11_InvalidConfigWritesNothing ==
    Validate(config) # "" =>
        /\ pc \in {"Generate", "done"}
        /\ files = EmptyFiles
        /\ dirs = {}
        /\ pc = "done" => genErr = "invalid configuration: " \o Validate(config)

C11_Witness ==
    /\ pc = "done"
    /\ config.ConfigFormat = "xml"
    /\ genErr = "invalid configuration: config format must be one of: env, yaml, json, toml"
    /\ files = EmptyFiles
    /\ dirs = {}

\* The files every successful run writes, whatever the options.
MandatoryFiles ==
    {<<"go.mod">>,
     <<"cmd">> \o Components(config.ProjectName) \o <<"main.go">>,
     <<"internal", "config", "config.go">>,
     <<"internal", "server", "server.go">>,
     <<"internal", "handlers", "handlers.go">>,
     <<"internal", "middleware", "middleware.go">>,
     <<"internal", "observability", "observability.go">>,
     <<"internal", "observability", "logger.go">>,
     <<"Makefile">>,
     <<".env.example">>,
     <<"README.md">>,
     <<".gitignore">>,
     <<"internal", "handlers", "handlers_test.go">>,
     <<"docs", "TESTING.md">>}

\* C12: Generate fails fast.  The step in which a file-system operation
\* fails is the last step Generate executes: Generate returns the error at
\* once, nothing is written after it, the files written before it stay in
\* place with their contents, and Generate returns nil only if every step
\* made all its writes.
C12_FailFast ==
    /\ [][(genErr = "running" /\ genErr' \notin {"running", ""}) =>
            /\ pc' = "done"
            /\ \A p \in DOMAIN files : p \in DOMAIN files'
            /\ dirs \subseteq dirs']_vars
    /\ [][(pc = "done" /\ genErr # "") => UNCHANGED <<files, dirs, pc, genErr>>]_vars
    /\ [](Succeeded => \A rel \in MandatoryFiles : FileExists(rel))

C12_Witness ==
    /\ pc = "done"
    /\ genErr = "file system error"
    /\ runs = 1
    /\ FileExists(<<"go.mod">>)
    /\ FileExists(<<"internal", "handlers", "handlers.go">>)
    /\ ~FileExists(<<"README.md">>)

\* Path p lies below directory d: it continues d and does not climb.
IsUnder(p, d) ==
    /\ Len(p) > Len(d)
    /\ SubSeq(p, 1, Len(d)) = d
    /\ \A i \in (Len(d) + 1)..Len(p) : p[i] # ".."

\* C13: for every configuration Validate accepts and every output directory,
\* every file Generate writes has a path under
\* filepath.Join(outputDir, ProjectName).
C13_FilesUnderProjectDir ==
    \A p \in DOMAIN files :
        IsUnder(p, Join(outputDir, Components(config.ProjectName)))

C13_Witness ==
    /\ Succeeded
    /\ outputDir = <<"..", "w">>
    /\ config.ProjectName = "my-app_1"
    /\ <<"..", "w", "my-app_1", "cmd", "my-app_1", "main.go">> \in DOMAIN files
    /\ <<"..", "w", "my-app_1", "go.mod">> \in DOMAIN files

ExampleFile(format) == <<"config." \o format \o ".example">>

\* C15: after a successful Generate the example config file matches the
\* format and only the format: config.yaml.example, config.json.example or
\* config.toml.example exists exactly when the format is yaml, json or toml;
\* env and the empty format produce none of the three.
C15_ExampleMatchesFormat ==
    Succeeded =>
        \A format \in StructuredFormats :
            FileExists(ExampleFile(format)) <=> config.ConfigFormat = format

C15_Witness ==
    /\ Succeeded
    /\ config.ConfigFormat = "json"
    /\ FileExists(<<"config.json.example">>)
    /\ ~FileExists(<<"config.yaml.example">>)
    /\ ~FileExists(<<"config.toml.example">>)

DockerFiles == {<<"Dockerfile">>, <<"docker-compose.yml">>, <<".dockerignore">>}

\* C16: after a successful Generate each optional artefact exists if and
\* only if its option is selected: the connection file of a database iff the
\* database is in Databases; Dockerfile, docker-compose.yml and .dockerignore
\* iff IncludeDocker; .github/workflows/ci.yml iff CI is github;
\* .gitlab-ci.yml iff CI is gitlab.
C16_OptionalArtefacts ==
    Succeeded =>
        /\ \A db \in AllDatabases : FileExists(ConnectionFile(db)) <=> HasDatabase(config, db)
        /\ \A rel \in DockerFiles : FileExists(rel) <=> config.IncludeDocker
        /\ FileExists(<<".github", "workflows", "ci.yml">>) <=> config.CI = "github"
        /\ FileExists(<<".gitlab-ci.yml">>) <=> config.CI = "gitlab"

C16_Witness ==
    /\ Succeeded
    /\ config.IncludeDocker
    /\ config.CI = "github"
    /\ config.Databases = {"postgres", "redis"}
    /\ FileExists(<<"Dockerfile">>)
    /\ FileExists(<<".github", "workflows", "ci.yml">>)
    /\ FileExists(<<"internal", "cache", "redis.go">>)
    /\ ~FileExists(<<".gitlab-ci.yml">>)
    /\ ~FileExists(<<"internal", "database", "mysql.go">>)

\* The module paths buildDependencies lists.
DependencyModules == {buildDependencies[i].module : i \in DOMAIN buildDependencies}

GoMod == <<"go.mod">>

\* C17: uuid is always included: for every configuration buildDependencies,
\* and with it the require block of the generated go.mod, lists
\* github.com/google/uuid, which the generated middleware file imports.
C17_UuidAlwaysListed ==
    FileExists(GoMod) =>
        /\ "github.com/google/uuid" \in DependencyModules
        /\ \E i \in DOMAIN buildDependencies :
              /\ buildDependencies[i].module = "github.com/google/uuid"
              /\ Contains(FileContent(GoMod), RequireLines(buildDependencies)[i])
        /\ Succeeded =>
              Contains(FileContent(<<"internal", "middleware", "middleware.go">>),
                       "\"github.com/google/uuid\"")

FrameworkModule ==
    [chi |-> "github.com/go-chi/chi/v5", gin |-> "github.com/gin-gonic/gin",
     echo |-> "github.com/labstack/echo/v4", fiber |-> "github.com/gofiber/fiber/v2"]

LoggerModule == [zap |-> "go.uber.org/zap", zerolog |-> "github.com/rs/zerolog"]

DriverModule ==
    [postgres |-> "github.com/jackc/pgx/v5", mysql |-> "github.com/go-sql-driver/mysql",
     mongodb |-> "go.mongodb.org/mongo-driver", redis |-> "github.com/redis/go-redis/v9"]

OpenTelemetryModules ==
    {"go.opentelemetry.io/otel", "go.opentelemetry.io/otel/sdk",
     "go.opentelemetry.io/otel/exporters/otlp/otlptrace/otlptracegrpc"}

TestingModules == {"github.com/stretchr/testify", "go.uber.org/mock"}

\* The modules of the options a configuration selects.
SelectedModules(c) ==
    TestingModules
    \cup {FrameworkModule[fw] : fw \in {c.Framework} \cap DOMAIN FrameworkModule}
    \cup {LoggerModule[l] : l \in {c.Logger} \cap DOMAIN LoggerModule}
    \cup {DriverModule[db] : db \in c.Databases \cap DOMAIN DriverModule}
    \cup (IF c.EnableTracing THEN OpenTelemetryModules ELSE {})
    \cup (IF c.EnableMetrics THEN {"github.com/prometheus/client_golang"} ELSE {})
    \cup (CASE c.ConfigFormat = "yaml" -> {"gopkg.in/yaml.v3"}
            [] c.ConfigFormat = "toml" -> {"github.com/BurntSushi/toml"}
            [] OTHER -> {"github.com/joho/godotenv"})

MockInterfaces == <<"internal", "mocks", "interfaces.go">>

\* C19: mock interfaces are generated for projects with databases: for every
\* valid configuration with at least one entry in Databases, a successful
\* Generate writes internal/mocks/interfaces.go holding a go:generate mockgen
\* directive.
C19_MocksForEveryDatabase ==
    (Succeeded /\ config.Databases # {}) =>
        /\ FileExists(MockInterfaces)
        /\ Contains(FileContent(MockInterfaces),
                    "//go:generate mockgen -source=interfaces.go -destination=mocks.go -package=mocks")

NameOK(c) == projectNameRegex(Chars(c.ProjectName))

ModulePathOK(c) == modulePathRegex(Chars(c.ModulePath))

GoVersionOK(c) == c.GoVersion \in {"1.21", "1.22", "1.23", "1.24"}

FrameworkOK(c) == c.Framework \in {"", "stdlib", "chi", "gin", "echo", "fiber"}

LoggerOK(c) == c.Logger \in {"", "slog", "zap", "zerolog"}

ConfigFormatOK(c) == c.ConfigFormat \in {"", "env", "yaml", "json", "toml"}

\* C20: Validate returns nil if and only if the project name matches the
\* name pattern, the module path is a host/path path with a slash, the Go
\* version is one of 1.21-1.24, and framework, logger and config format are
\* empty or one of their valid values; otherwise it returns the error of the
\* first failing check in the order name, module path, Go version,
\* framework, logger, config format.  Generate reports that error.
C20_ValidateIff ==
    LET err == Validate(config)
        name == NameOK(config)
        path == ModulePathOK(config)
        version == GoVersionOK(config)
        framework == FrameworkOK(config)
        logger == LoggerOK(config)
        format == ConfigFormatOK(config)
    IN  /\ err = "" <=> (name /\ path /\ version /\ framework /\ logger /\ format)
        /\ ~name =>
              err \in {"project name is required",
                       "project name must start with lowercase letter or number"}
        /\ (name /\ ~path) =>
              err \in {"module path is required",
                       "module path must be a valid Go module path"}
        /\ (name /\ path /\ ~version) =>
              err \in {"Go version is required", "Go version must be one of"}
        /\ (name /\ path /\ version /\ ~framework) =>
              err = "framework must be one of"
        /\ (name /\ path /\ version /\ framework /\ ~logger) =>
              err = "logger must be one of"
        /\ (name /\ path /\ version /\ framework /\ logger /\ ~format) =>
              err = "config format must be one of: env, yaml, json, toml"
        /\ (pc # "Generate" /\ err # "") => genErr = "invalid configuration: " \o err
        /\ (pc # "Generate" /\ err = "") =>
              genErr \in {"running", "", "file system error",
                          "failed to create directory structure"}

C20_Witness ==
    /\ pc = "done"
    /\ config.ProjectName = "my-app_1"
    /\ config.ModulePath = "github.com/test/app"
    /\ config.GoVersion = "1.24"
    /\ config.Framework = ""
    /\ config.Logger = "log"
    /\ config.ConfigFormat = "xml"
    /\ genErr = "invalid configuration: logger must be one of"

\* ================================================================== prompt
\* strings.Contains(s, substr) on the characters.
ContainsStr(cs, sub) ==
    \E i \in 1..(Len(cs) - Len(sub) + 1) : SubSeq(cs, i, i + Len(sub) - 1) = sub

StrContains(str, substr) == ContainsStr(Chars(str), Chars(substr))

\* regexp ^[a-z0-9-_]+$
promptNameRegex(cs) ==
    /\ Len(cs) > 0
    /\ \A i \in 1..Len(cs) : cs[i] \in Lower \cup Digit \cup {"-", "_"}

\* The error validateProjectName returns, "" for nil.
validateProjectName(str) ==
    IF Len(Chars(str)) = 0 THEN "project name cannot be empty"
    ELSE IF ~promptNameRegex(Chars(str)) THEN "project name must contain only lowercase letters"
    ELSE ""

\* Mutant: an unrecognised choice is passed through.
parseFramework_PassThrough(choice) ==
    CASE StrContains(choice, "net/http") -> "stdlib"
      [] StrContains(choice, "Chi") -> "chi"
      [] StrContains(choice, "Gin") -> "gin"
      [] StrContains(choice, "Echo") -> "echo"
      [] StrContains(choice, "Fiber") -> "fiber"
      [] OTHER -> choice

parseFramework(choice) ==
    CASE StrContains(choice, "net/http") -> "stdlib"
      [] StrContains(choice, "Chi") -> "chi"
      [] StrContains(choice, "Gin") -> "gin"
      [] StrContains(choice, "Echo") -> "echo"
      [] StrContains(choice, "Fiber") -> "fiber"
      [] OTHER -> "stdlib"

parseLogger(choice) ==
    CASE StrContains(choice, "slog") -> "slog"
      [] StrContains(choice, "Zap") -> "zap"
      [] StrContains(choice, "Zerolog") -> "zerolog"
      [] OTHER -> "slog"

parseCI(choice) ==
    CASE StrContains(choice, "GitHub") -> "github"
      [] StrContains(choice, "GitLab") -> "gitlab"
      [] OTHER -> ""

parseConfigFormat(choice) ==
    CASE StrContains(choice, "YAML") -> "yaml"
      [] StrContains(choice, "JSON") -> "json"
      [] StrContains(choice, "TOML") -> "toml"
      [] OTHER -> "env"

\* What is typed or selected at each question: the options the prompt
\* offers, the empty string, and strings that are not among the options.
NameInputs == {"app", "my-app_1", "", "App", "../..", "-app", "_x"}

FrameworkChoices ==
    {"net/http (standard library)", "Chi", "Gin", "Echo", "Fiber",
     "", "chi", "Gin or Chi", "Django"}

LoggerChoices == {"slog (standard library)", "Zap", "Zerolog", "", "zap", "Logrus"}

CIChoices == {"GitHub Actions", "GitLab CI", "None", "", "Jenkins"}

ConfigFormatChoices ==
    {"Environment variables (.env)", "YAML (config.yaml)", "JSON (config.json)",
     "TOML (config.toml)", "", "yaml", "XML"}

\* CollectConfiguration("") starts from the zero Config; the module path and
\* the Go version are answered with accepted values.
InitPrompt ==
    /\ config = [BaseConfig EXCEPT !.ProjectName = "", !.Framework = "", !.Logger = "",
                                   !.CI = "", !.ConfigFormat = "", !.GoVersion = "1.23"]
    /\ pc = "askName"
    /\ files = EmptyFiles
    /\ dirs = {}
    /\ genErr = "running"
    /\ ncalls = 0
    /\ first = NoCall
    /\ last = NoCall
    /\ outputDir = <<"out">>
    /\ runs = 0
    /\ prev = NoRun
    /\ wlog = <<>>
    /\ AuxInit

Answered(question, input, next) ==
    /\ answer' = [q \in DOMAIN answer \cup {question} |->
                     IF q = question THEN input ELSE answer[q]]
    /\ pc' = next
    /\ UNCHANGED <<files, dirs, genErr, ncalls, first, last, outputDir, runs, prev, wlog,
                   slices, hist, ret, procs, mu, order>>

\* survey.AskOne with the validator: a rejected name is asked again.
AskProjectName(name) ==
    /\ pc = "askName"
    /\ IF validateProjectName(name) # ""
       THEN UNCHANGED vars
       ELSE /\ config' = [config EXCEPT !.ProjectName = name]
            /\ Answered("ProjectName", name, "askFramework")

AskFramework(choice) ==
    /\ pc = "askFramework"
    /\ config' = [config EXCEPT !.Framework = parseFramework(choice)]
    /\ Answered("Framework", choice, "askLogger")

AskLogger(choice) ==
    /\ pc = "askLogger"
    /\ config' = [config EXCEPT !.Logger = parseLogger(choice)]
    /\ Answered("Logger", choice, "askCI")

AskCI(choice) ==
    /\ pc = "askCI"
    /\ config' = [config EXCEPT !.CI = parseCI(choice)]
    /\ Answered("CI", choice, "askConfigFormat")

AskConfigFormat(choice) ==
    /\ pc = "askConfigFormat"
    /\ config' = [config EXCEPT !.ConfigFormat = parseConfigFormat(choice)]
    /\ Answered("ConfigFormat", choice, "Generate")

\* The collected configuration is handed to Generate, which validates it.
PromptGenerate ==
    /\ pc = "Generate"
    /\ pc' = "validated"
    /\ genErr' = IF Validate(config) # "" THEN "invalid configuration: " \o Validate(config)
                 ELSE "running"
    /\ UNCHANGED <<config, files, dirs, ncalls, first, last, outputDir, runs, prev, wlog,
                   auxVars>>

NextPrompt ==
    \/ \E name \in NameInputs : AskProjectName(name)
    \/ \E choice \in FrameworkChoices : AskFramework(choice)
    \/ \E choice \in LoggerChoices : AskLogger(choice)
    \/ \E choice \in CIChoices : AskCI(choice)
    \/ \E choice \in ConfigFormatChoices : AskConfigFormat(choice)
    \/ PromptGenerate

SpecPrompt == InitPrompt /\ [][NextPrompt]_vars

Asked(question) == question \in DOMAIN answer

\* A choice that holds none of the keywords.
Unrecognised(choice, keywords) == \A kw \in keywords : ~StrContains(choice, kw)

\* C21: the prompt parsers are total and land in the validated domain: for
\* every input, parseFramework, parseLogger, parseConfigFormat and parseCI
\* return a value of their option set, an unrecognised or empty input gives
\* "stdlib", "slog", "env" and "", and the parsed Framework, Logger and
\* ConfigFormat are accepted by Config.Validate.
C21_ParsersTotal ==
    /\ Asked("Framework") =>
          /\ config.Framework \in {"stdlib", "chi", "gin", "echo", "fiber"}
          /\ Unrecognised(answer["Framework"], {"net/http", "Chi", "Gin", "Echo", "Fiber"})
                => config.Framework = "stdlib"
    /\ Asked("Logger") =>
          /\ config.Logger \in {"slog", "zap", "zerolog"}
          /\ Unrecognised(answer["Logger"], {"slog", "Zap", "Zerolog"})
                => config.Logger = "slog"
    /\ Asked("CI") =>
          /\ config.CI \in {"", "github", "gitlab"}
          /\ Unrecognised(answer["CI"], {"GitHub", "GitLab"}) => config.CI = ""
    /\ Asked("ConfigFormat") =>
          /\ config.ConfigFormat \in {"env", "yaml", "json", "toml"}
          /\ Unrecognised(answer["ConfigFormat"], {"YAML", "JSON", "TOML"})
                => config.ConfigFormat = "env"
    /\ pc = "validated" =>
          /\ FrameworkOK(config) /\ LoggerOK(config) /\ ConfigFormatOK(config)
          /\ genErr \notin {"invalid configuration: framework must be one of",
                            "invalid configuration: logger must be one of",
                            "invalid configuration: config format must be one of: env, yaml, json, toml"}

C21_Witness ==
    /\ pc = "validated"
    /\ answer["ProjectName"] = "my-app_1"
    /\ answer["Framework"] = "Django"
    /\ answer["Logger"] = ""
    /\ answer["CI"] = "Jenkins"
    /\ answer["ConfigFormat"] = "yaml"
    /\ config.Framework = "stdlib"
    /\ config.Logger = "slog"
    /\ config.CI = ""
    /\ config.ConfigFormat = "env"
    /\ genErr = "running"

\* C29: the prompt's project-name validator is at least as strict as the
\* generator's: every non-empty name validateProjectName accepts passes the
\* ProjectName checks of Config.Validate, so a name accepted at the prompt
\* never makes Generate fail with "invalid configuration".
C29_PromptNameAccepted ==
    /\ Asked("ProjectName") => NameOK(config)
    /\ pc = "validated" => genErr = "running"

\* ------------------------------------------------------ accessor closure
\* The method definition behind the accessor call of a catalog field.
AccessorDefinition(f) == "func (c *Config) Get" \o f \o "() string"

\* The catalog fields whose accessor call stands in some file on disk.
WrittenAccessorFields ==
    {f \in Catalog : \E path \in DOMAIN files : Contains(files[path], AccessorCall(f))}

\* C25: for every valid configuration with a structured format, every
\* accessor call that a generator obtained from getConfigFieldReference and
\* wrote into a generated file (GetPort, GetEnvironment, Get<X>URL of the
\* selected databases) names a method that generateConfigAccessors emits for
\* the same configuration.
C25_AccessorClosure ==
    config.ConfigFormat \in StructuredFormats =>
        LET emitted == Fragments(generateConfigAccessors) IN
        \A f \in Catalog :
            (getConfigFieldReference(f) = AccessorCall(f) /\ f \in WrittenAccessorFields)
                => AccessorDefinition(f) \in emitted

C25_Witness ==
    /\ Succeeded
    /\ config.ConfigFormat = "json"
    /\ config.Databases = {"mongodb", "redis"}
    /\ WrittenAccessorFields = {"Port", "Environment", "MongoURL", "RedisURL"}
    /\ AccessorDefinition("RedisURL") \in Fragments(generateConfigAccessors)
    /\ AccessorDefinition("MongoURL") \in Fragments(generateConfigAccessors)

\* ------------------------------------------------------- one config.go
\* How many times the current run has written the project file rel.
WriteCount(rel) == Cardinality({i \in DOMAIN wlog : wlog[i] = Join(projectDir, rel)})

\* C26: for every format Validate accepts ("", env, yaml, json, toml) a
\* successful Generate writes internal/config/config.go exactly once: the env
\* config package and the format-specific loader are never both written and
\* never both skipped.
C26_ConfigGoWrittenOnce == Succeeded => WriteCount(ConfigGo) = 1

C26_Witness ==
    /\ Succeeded
    /\ config.ConfigFormat = "toml"
    /\ WriteCount(ConfigGo) = 1
    /\ Contains(FileContent(ConfigGo), "\"github.com/BurntSushi/toml\"")

\* ----------------------------------------------------------- empty logger
\* template_engine.go: the logger type and import handed to the templates.
getLoggerType ==
    CASE config.Logger = "slog"    -> "*slog.Logger"
      [] config.Logger = "zap"     -> "*zap.Logger"
      [] config.Logger = "zerolog" -> "*zerolog.Logger"
      [] OTHER                     -> "*slog.Logger"

getLoggerImport ==
    CASE config.Logger = "slog"    -> "\"log/slog\""
      [] config.Logger = "zap"     -> "\"go.uber.org/zap\""
      [] config.Logger = "zerolog" -> "\"github.com/rs/zerolog\""
      [] OTHER                     -> "\"log/slog\""

LoggerFile == <<"internal", "observability", "logger.go">>

MainFile == <<"cmd">> \o Components(config.ProjectName) \o <<"main.go">>

\* C27: an empty Logger is treated as slog by every logger-dependent
\* generator: after a successful Generate with Logger = "" the logger type and
\* import are those of slog, main.go initialises the logger through
\* observability.NewLogger and observability.SetDefaultLogger, and the
\* generated logger file is the slog one, which defines both.
C27_EmptyLoggerIsSlog ==
    (Succeeded /\ config.Logger = "") =>
        /\ getLoggerType = "*slog.Logger"
        /\ getLoggerImport = "\"log/slog\""
        /\ Contains(FileContent(MainFile), "logger := observability.NewLogger(cfg)")
        /\ Contains(FileContent(MainFile), "observability.SetDefaultLogger(logger)")
        /\ Contains(FileContent(LoggerFile), "func NewLogger(cfg *config.Config) *slog.Logger {")
        /\ Contains(FileContent(LoggerFile), "func SetDefaultLogger(logger *slog.Logger) {")

\* ------------------------------------------------- test suite and mocks
DatabaseTest == <<"internal", "database", "database_test.go">>

\* C28: whenever a run of Generate has written internal/database/database_test.go
\* (which refers to mocks.MockDatabaseInterface), the same run has written
\* internal/mocks/interfaces.go and that file declares DatabaseInterface,
\* whatever databases are selected.
C28_TestSuiteHasMockInterface ==
    WriteCount(DatabaseTest) > 0 =>
        /\ Contains(FileContent(DatabaseTest), "mockDB  *mocks.MockDatabaseInterface")
        /\ WriteCount(MockInterfaces) > 0
        /\ Contains(FileContent(MockInterfaces), "type DatabaseInterface interface {")

\* ====================================================== MemoryFileSystem
\* strings.HasPrefix on two strings.
StartsWith(str, prefix) ==
    /\ Len(Chars(prefix)) <= Len(Chars(str))
    /\ SubSeq(Chars(str), 1, Len(Chars(prefix))) = Chars(prefix)

\* strings.HasPrefix(name, path) on two cleaned paths: the elements before
\* the last element of path are equal, and the element of name at that place
\* starts with the last element of path.  The empty sequence is ".".
HasPrefix(name, path) ==
    IF path = <<>>
    THEN name = <<>> \/ (Len(name) > 0 /\ StartsWith(name[1], "."))
    ELSE /\ Len(name) >= Len(path)
         /\ SubSeq(name, 1, Len(path) - 1) = SubSeq(path, 1, Len(path) - 1)
         /\ StartsWith(name[Len(path)], path[Len(path)])

\* The directories MkdirAll(path) marks: path and its parents, up to but
\* not including ".".
MkdirAllDirs(path) == {path} \cup WithParents(path)

\* Mutant: the stored slice is the caller's slice.
WriteFileBacking_Alias(name) == {name}

\* WriteFile stores make([]byte, len(data)) filled by copy: the stored bytes
\* share no array with the caller's slice.  The result is the set of stored
\* files whose array the caller's slice shares.
WriteFileBacking(name) == {}

\* ReadFile returns a copy of the stored bytes.
ReadFileBacking(name) == {}

\* The paths and the data the file system is called with.  Two spellings
\* clean to a/b/f; a/bc is a sibling of a/b whose name starts with "b".
WritePaths == {<<"a", "b", "f">>, <<"a", ".", "b", "", "f">>, <<"a", "bc">>}

ReadPaths == {<<"a", "b", "f">>, <<"a", "d", "..", "b", "f">>, <<"a", "bc">>, <<"zz">>}

MkdirPaths == {<<"a", "b">>, <<"d">>}

RemovePaths == {<<"a">>, <<"a", "b">>, <<"a", "b", "f">>, <<"a", "bc">>, <<"zz">>}

Datas == {<<1>>, <<2>>}

InitFS ==
    /\ config = BaseConfig
    /\ pc = "fs"
    /\ files = EmptyFiles
    /\ dirs = {}
    /\ genErr = "running"
    /\ ncalls = 0
    /\ first = NoCall
    /\ last = NoCall
    /\ outputDir = <<"out">>
    /\ runs = 0
    /\ prev = NoRun
    /\ wlog = <<>>
    /\ AuxInit

\* What no file-system call changes.
fsFrame == <<config, pc, genErr, ncalls, first, last, outputDir, runs, prev, wlog,
             answer, procs, mu, order>>

Returned(op, path, err, data) == [op |-> op, path |-> path, err |-> err, data |-> data]

\* A slice whose array is no longer the one stored at name owns its array.
Detach(ss, name) ==
    [i \in DOMAIN ss |-> [ss[i] EXCEPT !.backing = @ \ {name}]]

MemWriteFile(raw, data) ==
    LET name == Join(<<>>, raw) IN
    /\ pc = "fs"
    /\ Len(slices) < MaxSlices
    /\ dirs' = dirs \cup {Dir(name)} \cup WithParents(Dir(name))
    /\ files' = [p \in DOMAIN files \cup {name} |-> IF p = name THEN data ELSE files[p]]
    /\ slices' = Append(Detach(slices, name),
                        [data |-> data, backing |-> WriteFileBacking(name)])
    /\ hist' = [p \in DOMAIN hist \cup {name} |-> IF p = name THEN data ELSE hist[p]]
    /\ ret' = Returned("WriteFile", name, "", <<>>)
    /\ UNCHANGED fsFrame

MemReadFile(raw) ==
    LET name == Join(<<>>, raw) IN
    /\ pc = "fs"
    /\ IF name \in DOMAIN files
       THEN /\ Len(slices) < MaxSlices
            /\ ret' = Returned("ReadFile", name, "", files[name])
            /\ slices' = Append(slices,
                                [data |-> files[name], backing |-> ReadFileBacking(name)])
       ELSE /\ ret' = Returned("ReadFile", name, "ErrNotExist", <<>>)
            /\ UNCHANGED slices
    /\ UNCHANGED <<files, dirs, hist>>
    /\ UNCHANGED fsFrame

\* A caller overwrites the first byte of a slice it holds; the write lands
\* in every slice that shares the array.
MutateSlice(i) ==
    /\ pc = "fs"
    /\ i \in DOMAIN slices
    /\ slices[i].data[1] # 9
    /\ slices' = [slices EXCEPT ![i].data[1] = 9]
    /\ files' = [p \in DOMAIN files |->
                    IF p \in slices[i].backing THEN [files[p] EXCEPT ![1] = 9]
                    ELSE files[p]]
    /\ UNCHANGED <<dirs, hist, ret>>
    /\ UNCHANGED fsFrame

MemMkdirAll(raw) ==
    LET path == Join(<<>>, raw) IN
    /\ pc = "fs"
    /\ dirs' = dirs \cup MkdirAllDirs(path)
    /\ ret' = Returned("MkdirAll", path, "", <<>>)
    /\ UNCHANGED <<files, slices, hist>>
    /\ UNCHANGED fsFrame

MemRemove(raw) ==
    LET name == Join(<<>>, raw) IN
    /\ pc = "fs"
    /\ IF name \in DOMAIN files
       THEN /\ files' = [p \in DOMAIN files \ {name} |-> files[p]]
            /\ hist' = [p \in DOMAIN hist \ {name} |-> hist[p]]
            /\ slices' = Detach(slices, name)
            /\ ret' = Returned("Remove", name, "", <<>>)
            /\ UNCHANGED dirs
       ELSE IF name \in dirs
       THEN /\ dirs' = dirs \ {name}
            /\ ret' = Returned("Remove", name, "", <<>>)
            /\ UNCHANGED <<files, hist, slices>>
       ELSE /\ ret' = Returned("Remove", name, "ErrNotExist", <<>>)
            /\ UNCHANGED <<files, dirs, hist, slices>>
    /\ UNCHANGED fsFrame

MemRemoveAll(raw) ==
    LET path == Join(<<>>, raw)
        kept == {p \in DOMAIN files : ~HasPrefix(p, path)}
    IN
    /\ pc = "fs"
    /\ files' = [p \in kept |-> files[p]]
    /\ dirs' = {d \in dirs : ~HasPrefix(d, path)}
    /\ hist' = [p \in DOMAIN hist \cap kept |-> hist[p]]
    /\ slices' = [i \in DOMAIN slices |-> [slices[i] EXCEPT !.backing = @ \cap kept]]
    /\ ret' = Returned("RemoveAll", path, "", <<>>)
    /\ UNCHANGED fsFrame

NextFS ==
    \/ \E raw \in WritePaths, data \in Datas : MemWriteFile(raw, data)
    \/ \E raw \in ReadPaths : MemReadFile(raw)
    \/ \E i \in 1..MaxSlices : MutateSlice(i)
    \/ \E raw \in MkdirPaths : MemMkdirAll(raw)
    \/ \E raw \in RemovePaths : MemRemove(raw)
    \/ \E raw \in RemovePaths : MemRemoveAll(raw)

SpecFS == InitFS /\ [][NextFS]_vars

AtOrBeneath(p, q) == p = q \/ IsUnder(p, q)

\* C23: RemoveAll(path) removes path and any children it contains and
\* nothing else: afterwards no file or directory equal to or beneath path
\* exists, and every file and directory that is neither path nor a descendant
\* of it (siblings whose names start with the name of path included) is
\* unchanged.
C23_RemoveAllFrame ==
    [][ret'.op = "RemoveAll" =>
          /\ \A p \in DOMAIN files' : ~AtOrBeneath(p, ret'.path)
          /\ \A d \in dirs' : ~AtOrBeneath(d, ret'.path)
          /\ \A p \in DOMAIN files :
                ~AtOrBeneath(p, ret'.path) => (p \in DOMAIN files' /\ files'[p] = files[p])
          /\ \A d \in dirs : ~AtOrBeneath(d, ret'.path) => d \in dirs']_vars

\* Directory d contains a file or a directory.
HasChild(d) == (\E p \in DOMAIN files : IsUnder(p, d)) \/ (\E e \in dirs : IsUnder(e, d))

\* C24: Remove removes the named file or empty directory: Remove(name) on a
\* directory that still contains a file or subdirectory does not remove it,
\* so no file is ever left without its parent directory, and Remove on an
\* absent path returns fs.ErrNotExist and leaves the file system unchanged.
C24_RemoveKeepsNonEmptyDir ==
    /\ [][(ret'.op = "Remove" /\ ret'.path \in dirs /\ HasChild(ret'.path))
            => ret'.path \in dirs']_vars
    /\ [][(ret'.op = "Remove" /\ ret'.path \notin dirs /\ ret'.path \notin DOMAIN files)
            => (ret'.err = "ErrNotExist" /\ UNCHANGED <<files, dirs>>)]_vars
    /\ [](\A p \in DOMAIN files : Dir(p) \in dirs)

\* ===================================== MemoryFileSystem, called concurrently
\* The sequential file system: a record of the two maps, and what each
\* operation makes of it when it runs alone.
NewMemory == [files |-> EmptyFiles, dirs |-> {}]

SeqWriteFile(st, name, data) ==
    [files |-> [p \in DOMAIN st.files \cup {name} |-> IF p = name THEN data ELSE st.files[p]],
     dirs  |-> st.dirs \cup {Dir(name)} \cup WithParents(Dir(name))]

SeqMkdirAll(st, path) == [st EXCEPT !.dirs = @ \cup MkdirAllDirs(path)]

SeqRemove(st, name) ==
    IF name \in DOMAIN st.files
    THEN [st EXCEPT !.files = [p \in DOMAIN st.files \ {name} |-> st.files[p]]]
    ELSE [st EXCEPT !.dirs = @ \ {name}]

SeqRemoveAll(st, path) ==
    [files |-> [p \in {q \in DOMAIN st.files : ~HasPrefix(q, path)} |-> st.files[p]],
     dirs  |-> {d \in st.dirs : ~HasPrefix(d, path)}]

SeqReadFile(st, name) ==
    IF name \in DOMAIN st.files
    THEN [err |-> "", data |-> st.files[name]]
    ELSE [err |-> "ErrNotExist", data |-> <<>>]

SeqApply(st, call) ==
    CASE call.op = "WriteFile" -> SeqWriteFile(st, Join(<<>>, call.path), call.data)
      [] call.op = "MkdirAll"  -> SeqMkdirAll(st, Join(<<>>, call.path))
      [] call.op = "Remove"    -> SeqRemove(st, Join(<<>>, call.path))
      [] call.op = "RemoveAll" -> SeqRemoveAll(st, Join(<<>>, call.path))
      [] OTHER                 -> st

\* The calls the goroutines make; the data of a write is two bytes long.
Call(op, path, data) == [op |-> op, path |-> path, data |-> data]

ConcCalls ==
    {Call("WriteFile", <<"a", "b", "f">>, <<1, 1>>),
     Call("WriteFile", <<"a", ".", "b", "f">>, <<2, 2>>),
     Call("WriteFile", <<"a", "bc">>, <<1, 1>>),
     Call("ReadFile", <<"a", "b", "f">>, <<>>),
     Call("MkdirAll", <<"a", "b">>, <<>>),
     Call("Remove", <<"a", "b", "f">>, <<>>),
     Call("RemoveAll", <<"a", "b">>, <<>>)}

\* A goroutine about to make its call: src is the array ReadFile found in
\* the map (the goroutine that allocated it), out and err are its results.
Goroutine(call) ==
    [op |-> call.op, path |-> call.path, data |-> call.data, at |-> "start",
     src |-> 0, out |-> <<>>, err |-> ""]

\* slices[g] is the array goroutine g allocates in WriteFile; backing is the
\* set of names under which m.files holds it.
InitConc ==
    /\ config = BaseConfig
    /\ pc = "conc"
    /\ files = EmptyFiles
    /\ dirs = {}
    /\ genErr = "running"
    /\ ncalls = 0
    /\ first = NoCall
    /\ last = NoCall
    /\ outputDir = <<"out">>
    /\ runs = 0
    /\ prev = NoRun
    /\ wlog = <<>>
    /\ answer = <<>>
    /\ hist = EmptyFiles
    /\ ret = NoReturn
    /\ procs \in [1..MaxGoroutines -> {Goroutine(call) : call \in ConcCalls}]
    /\ slices = [g \in 1..MaxGoroutines |-> [data |-> <<>>, backing |-> {}]]
    /\ mu = [writer |-> 0, readers |-> {}]
    /\ order = <<>>

concFrame == <<config, pc, genErr, ncalls, first, last, outputDir, runs, prev, wlog,
               answer, hist, ret>>

\* Mutant: Lock does not wait for the readers and the writer to leave.
CanLock_NoExclusion == TRUE

\* sync.RWMutex: Lock returns when no goroutine holds the mutex.
CanLock == mu.writer = 0 /\ mu.readers = {}

\* Mutant: RLock does not wait for the writer to leave.
CanRLock_IgnoresWriter == TRUE

\* sync.RWMutex: RLock returns when no writer holds the mutex.
CanRLock == mu.writer = 0

Name(g) == Join(<<>>, procs[g].path)

Goto(g, at) == procs' = [procs EXCEPT ![g].at = at]

\* m.mu.Lock() at the head of MkdirAll, WriteFile, Remove and RemoveAll.
Lock(g) ==
    /\ procs[g].op # "ReadFile"
    /\ procs[g].at = "start"
    /\ CanLock
    /\ mu' = [mu EXCEPT !.writer = g]
    /\ order' = Append(order, g)
    /\ Goto(g, "locked")
    /\ UNCHANGED <<files, dirs, slices>>
    /\ UNCHANGED concFrame

\* m.mu.RLock() at the head of ReadFile.
RLock(g) ==
    /\ procs[g].op = "ReadFile"
    /\ procs[g].at = "start"
    /\ CanRLock
    /\ mu' = [mu EXCEPT !.readers = @ \cup {g}]
    /\ order' = Append(order, g)
    /\ Goto(g, "locked")
    /\ UNCHANGED <<files, dirs, slices>>
    /\ UNCHANGED concFrame

\* WriteFile: the parent directories.
WriteFileDirs(g) ==
    /\ procs[g].op = "WriteFile"
    /\ procs[g].at = "locked"
    /\ dirs' = dirs \cup {Dir(Name(g))} \cup WithParents(Dir(Name(g)))
    /\ Goto(g, "make")
    /\ UNCHANGED <<files, slices, mu, order>>
    /\ UNCHANGED concFrame

\* WriteFile: m.files[name] = make([]byte, len(data)), a zeroed array.
WriteFileMake(g) ==
    LET zero == [i \in DOMAIN procs[g].data |-> 0] IN
    /\ procs[g].op = "WriteFile"
    /\ procs[g].at = "make"
    /\ files' = [p \in DOMAIN files \cup {Name(g)} |-> IF p = Name(g) THEN zero ELSE files[p]]
    /\ slices' = [h \in DOMAIN slices |->
                     IF h = g THEN [data |-> zero, backing |-> {Name(g)}]
                     ELSE [slices[h] EXCEPT !.backing = @ \ {Name(g)}]]
    /\ Goto(g, "copy1")
    /\ UNCHANGED <<dirs, mu, order>>
    /\ UNCHANGED concFrame

\* WriteFile: copy(m.files[name], data), one byte at a time.
WriteFileCopy(g, i) ==
    /\ procs[g].op = "WriteFile"
    /\ procs[g].at = (IF i = 1 THEN "copy1" ELSE "copy2")
    /\ slices' = [slices EXCEPT ![g].data[i] = procs[g].data[i]]
    /\ files' = [p \in DOMAIN files |->
                    IF p \in slices[g].backing THEN [files[p] EXCEPT ![i] = procs[g].data[i]]
                    ELSE files[p]]
    /\ Goto(g, IF i = 1 THEN "copy2" ELSE "unlock")
    /\ UNCHANGED <<dirs, mu, order>>
    /\ UNCHANGED concFrame

\* ReadFile: data, ok := m.files[name].
ReadFileLookup(g) ==
    /\ procs[g].op = "ReadFile"
    /\ procs[g].at = "locked"
    /\ IF Name(g) \in DOMAIN files
       THEN procs' = [procs EXCEPT
                         ![g].src = CHOOSE h \in DOMAIN slices : Name(g) \in slices[h].backing,
                         ![g].at = "copy"]
       ELSE procs' = [procs EXCEPT ![g].err = "ErrNotExist", ![g].at = "unlock"]
    /\ UNCHANGED <<files, dirs, slices, mu, order>>
    /\ UNCHANGED concFrame

\* ReadFile: result := make([]byte, len(data)); copy(result, data).
ReadFileCopy(g) ==
    /\ procs[g].op = "ReadFile"
    /\ procs[g].at = "copy"
    /\ procs' = [procs EXCEPT ![g].out = slices[procs[g].src].data, ![g].at = "unlock"]
    /\ UNCHANGED <<files, dirs, slices, mu, order>>
    /\ UNCHANGED concFrame

MkdirAllBody(g) ==
    /\ procs[g].op = "MkdirAll"
    /\ procs[g].at = "locked"
    /\ dirs' = dirs \cup MkdirAllDirs(Name(g))
    /\ Goto(g, "unlock")
    /\ UNCHANGED <<files, slices, mu, order>>
    /\ UNCHANGED concFrame

RemoveBody(g) ==
    /\ procs[g].op = "Remove"
    /\ procs[g].at = "locked"
    /\ IF Name(g) \in DOMAIN files
       THEN /\ files' = [p \in DOMAIN files \ {Name(g)} |-> files[p]]
            /\ slices' = [h \in DOMAIN slices |-> [slices[h] EXCEPT !.backing = @ \ {Name(g)}]]
            /\ procs' = [procs EXCEPT ![g].at = "unlock"]
            /\ UNCHANGED dirs
       ELSE IF Name(g) \in dirs
       THEN /\ dirs' = dirs \ {Name(g)}
            /\ procs' = [procs EXCEPT ![g].at = "unlock"]
            /\ UNCHANGED <<files, slices>>
       ELSE /\ procs' = [procs EXCEPT ![g].err = "ErrNotExist", ![g].at = "unlock"]
            /\ UNCHANGED <<files, dirs, slices>>
    /\ UNCHANGED <<mu, order>>
    /\ UNCHANGED concFrame

\* RemoveAll: the loop over m.files.
RemoveAllFiles(g) ==
    LET kept == {p \in DOMAIN files : ~HasPrefix(p, Name(g))} IN
    /\ procs[g].op = "RemoveAll"
    /\ procs[g].at = "locked"
    /\ files' = [p \in kept |-> files[p]]
    /\ slices' = [h \in DOMAIN slices |-> [slices[h] EXCEPT !.backing = @ \cap kept]]
    /\ Goto(g, "dirs")
    /\ UNCHANGED <<dirs, mu, order>>
    /\ UNCHANGED concFrame

\* RemoveAll: the loop over m.dirs.
RemoveAllDirs(g) ==
    /\ procs[g].op = "RemoveAll"
    /\ procs[g].at = "dirs"
    /\ dirs' = {d \in dirs : ~HasPrefix(d, Name(g))}
    /\ Goto(g, "unlock")
    /\ UNCHANGED <<files, slices, mu, order>>
    /\ UNCHANGED concFrame

\* The deferred m.mu.Unlock() / m.mu.RUnlock(), and the return.
Unlock(g) ==
    /\ procs[g].at = "unlock"
    /\ mu' = IF procs[g].op = "ReadFile"
             THEN [mu EXCEPT !.readers = @ \ {g}]
             ELSE [mu EXCEPT !.writer = 0]
    /\ Goto(g, "done")
    /\ UNCHANGED <<files, dirs, slices, order>>
    /\ UNCHANGED concFrame

NextConc ==
    \E g \in 1..MaxGoroutines :
        \/ Lock(g)
        \/ RLock(g)
        \/ WriteFileDirs(g)
        \/ WriteFileMake(g)
        \/ \E i \in 1..2 : WriteFileCopy(g, i)
        \/ ReadFileLookup(g)
        \/ ReadFileCopy(g)
        \/ MkdirAllBody(g)
        \/ RemoveBody(g)
        \/ RemoveAllFiles(g)
        \/ RemoveAllDirs(g)
        \/ Unlock(g)

SpecConc == InitConc /\ [][NextConc]_vars

\* The sequential file system after the first k calls of order ran alone,
\* one after the other.
RECURSIVE SeqRun(_)
SeqRun(k) == IF k = 0 THEN NewMemory ELSE SeqApply(SeqRun(k - 1), procs[order[k]])

HasReturned(g) == procs[g].at = "done"

\* C30: operations invoked concurrently from several goroutines are
\* linearizable: a ReadFile that has returned gives fs.ErrNotExist or the
\* complete content of one single WriteFile to that path (never a partial or
\* mixed buffer), namely what it would read in the sequential run of the
\* calls in the order in which they took the mutex, and once every call has
\* returned files and dirs are the result of that sequential run.
C30_Linearizable ==
    /\ \A k \in DOMAIN order :
          LET g == order[k] IN
          (procs[g].op = "ReadFile" /\ HasReturned(g)) =>
              /\ [err |-> procs[g].err, data |-> procs[g].out] = SeqReadFile(SeqRun(k - 1), Name(g))
              /\ \/ procs[g].err = "ErrNotExist"
                 \/ \E h \in DOMAIN procs :
                       /\ procs[h].op = "WriteFile"
                       /\ Name(h) = Name(g)
                       /\ procs[h].data = procs[g].out
    /\ (\A g \in DOMAIN procs : HasReturned(g)) =>
          /\ Len(order) = MaxGoroutines
          /\ [files |-> files, dirs |-> dirs] = SeqRun(Len(order))

\* Two writers of a/b/f and a reader that ran between them have returned.
C30_Witness ==
    /\ \A g \in DOMAIN procs : HasReturned(g)
    /\ \E r, w1, w2 \in DOMAIN procs :
          /\ procs[r].op = "ReadFile" /\ procs[r].out = <<1, 1>>
          /\ procs[w1].op = "WriteFile" /\ procs[w1].data = <<1, 1>>
          /\ procs[w2].op = "WriteFile" /\ procs[w2].data = <<2, 2>>
          /\ files[<<"a", "b", "f">>] = <<2, 2>>

====
